---- MODULE Spec2Model ----
(***************************************************************************)
(* Model of the action-language engine: the rule base and state-transition *)
(* function of engine/executor.py and the textual entry points of          *)
(* engine/semantics.py (with the grammar of engine/parser.py).             *)
(*                                                                         *)
(* A Python string is modelled as the sequence of its words (the pieces    *)
(* separated by single spaces): "engine_on" is <<"engine_on">> and         *)
(* "not engine_on" is <<"not", "engine_on">>.  Membership of a string in a *)
(* set of strings is then equality of sequences, as it is equality of      *)
(* strings in the code.                                                    *)
(***************************************************************************)
EXTENDS Naturals, Sequences, FiniteSets

\* ------------------------------------------------------------------ bounds
MaxRules == 2
MaxProgLen == 2

\* ------------------------------------------------------------ input sets
ActionNames == {"a", "b"}
P == <<"p">>
Q == <<"q">>
NotP == <<"not", "p">>
NotQ == <<"not", "q">>
FluentNames == {P, Q}
EffectStrings == {P, Q, NotP, NotQ}
\* condition lists of causes rules (`conditions or []`) and of impossible
\* rules (the grammar gives these at least one condition)
CondLists == {<< >>, <<P>>, <<NotP>>}
ImpossibleConds == {<<P>>, <<NotP>>, <<P, Q>>}

\* programs: the lists of at most MaxProgLen action names
RECURSIVE SeqsUpTo(_, _)
SeqsUpTo(S, n) ==
    IF n = 0 THEN {<< >>}
    ELSE LET shorter == SeqsUpTo(S, n - 1)
         IN  shorter \cup {Append(p, x) : p \in {q \in shorter : Len(q) = n - 1}, x \in S}
Programs == SeqsUpTo(ActionNames, MaxProgLen)

\* the text `a1 sep a2 sep ... an` of a program
RECURSIVE Joined(_, _)
Joined(program, sep) ==
    IF Len(program) = 1 THEN program
    ELSE <<Head(program), sep>> \o Joined(Tail(program), sep)

\* program texts: the programs of one or two actions written with `;`, one written
\* with `+`, one with agent lists, and texts that are no action expression
Texts ==
    {Joined(p, ";") : p \in {q \in Programs : Len(q) \in 1..2}}
      \cup {<<"a", "+", "b">>}
      \cup {<<"a", "(", "x", ")", ";", "b", "(", "x", ",", "y", ")">>}
      \cup {<< >>, <<"a", ";">>}

\* ------------------------------------------------------------------ state
VARIABLES causes_rules, releases_rules, impossible_rules, always_rules,
          call, ret

vars == <<causes_rules, releases_rules, impossible_rules, always_rules, call, ret>>

\* The ActionExecutor object: its four rule collections.
Executor ==
    [causes_rules |-> causes_rules, releases_rules |-> releases_rules,
     impossible_rules |-> impossible_rules, always_rules |-> always_rules]

\* State(fluents=..., released=...)
State(fluents, released) == [fluents |-> fluents, released |-> released]

\* a copy that leaves the fluents behind
CopyWithoutFluents(self) == State({}, self.released)

\* a copy that is exact only for a caller that holds no result of an earlier
\* operation: for any other its released set also takes the fluents
CopyAfterResult(self) ==
    IF call.op = "idle" THEN State(self.fluents, self.released)
    ELSE State(self.fluents, self.released \cup self.fluents)

\* State.copy
Copy(self) == State(self.fluents, self.released)

\* The states a caller builds by hand: State(fluents=F, released=set()).
InitialStates == {State(F, {}) : F \in SUBSET FluentNames}

\* ------------------------------------------------------- string helpers
\* effect.startswith("not ")
StartsWithNot(effect) == Len(effect) >= 2 /\ effect[1] = "not"

\* effect[4:] of a string that starts with "not "
StripNot(effect) == Tail(effect)

\* all(cond in state.fluents for cond in conditions)
AllIn(conditions, fluents) ==
    \A i \in 1..Len(conditions) : conditions[i] \in fluents

\* a dict update that puts the new item in front of the key's list
Prepended(dict, key, item) ==
    [k \in DOMAIN dict \cup {key} |->
        IF k = key
        THEN (IF key \in DOMAIN dict THEN <<item>> \o dict[key] ELSE <<item>>)
        ELSE dict[k]]

\* dict lookup after the `if key not in dict: dict[key] = []` idiom
Appended(dict, key, item) ==
    [k \in DOMAIN dict \cup {key} |->
        IF k = key
        THEN (IF key \in DOMAIN dict THEN Append(dict[key], item) ELSE <<item>>)
        ELSE dict[k]]

\* ------------------------------------------------------------- executor
\* a test that lets an action pass only if some rule declares it
IsActionPossibleIfDeclared(self, action, state) ==
    IF action \notin DOMAIN self.impossible_rules
    THEN action \in DOMAIN self.causes_rules \cup DOMAIN self.releases_rules
    ELSE ~ \E i \in 1..Len(self.impossible_rules[action]) :
              AllIn(self.impossible_rules[action][i], state.fluents)

IsActionPossible(self, action, state) ==
    IF action \notin DOMAIN self.impossible_rules
    THEN TRUE
    ELSE ~ \E i \in 1..Len(self.impossible_rules[action]) :
              AllIn(self.impossible_rules[action][i], state.fluents)

\* an inertia step that leaves the draft as the causes loop made it
ApplyInertiaKeepingDraft(old_state, new_state) == new_state

ApplyInertia(old_state, new_state) ==
    State(new_state.fluents \cup
            {fluent \in old_state.fluents :
                fluent \notin new_state.released /\ fluent \notin new_state.fluents},
          new_state.released)

\* one iteration of the loop of apply_always_rules / of the causes loop
ApplyEffect(effect, fluents) ==
    IF StartsWithNot(effect)
    THEN fluents \ {StripNot(effect)}
    ELSE fluents \cup {effect}

RECURSIVE AlwaysLoop(_, _, _)
AlwaysLoop(rules, i, fluents) ==
    IF i > Len(rules) THEN fluents
    ELSE AlwaysLoop(rules, i + 1, ApplyEffect(rules[i], fluents))

ApplyAlwaysRules(self, state) ==
    State(AlwaysLoop(self.always_rules, 1, state.fluents), state.released)

\* `# Apply releases`
ApplyReleases(self, action, new_state) ==
    IF action \in DOMAIN self.releases_rules
    THEN State(new_state.fluents,
               new_state.released \cup
                 {self.releases_rules[action][i] :
                     i \in 1..Len(self.releases_rules[action])})
    ELSE new_state

\* the causes loop testing the conditions on the draft it is building
RECURSIVE CausesLoopOnDraft(_, _, _, _)
CausesLoopOnDraft(rules, i, state, fluents) ==
    IF i > Len(rules) THEN fluents
    ELSE CausesLoopOnDraft(rules, i + 1, state,
            IF AllIn(rules[i][2], fluents)
            THEN ApplyEffect(rules[i][1], fluents)
            ELSE fluents)

\* the causes loop applying every effect, whatever the conditions
RECURSIVE CausesLoopUnconditional(_, _, _, _)
CausesLoopUnconditional(rules, i, state, fluents) ==
    IF i > Len(rules) THEN fluents
    ELSE CausesLoopUnconditional(rules, i + 1, state, ApplyEffect(rules[i][1], fluents))

RECURSIVE CausesLoop(_, _, _, _)
CausesLoop(rules, i, state, fluents) ==
    IF i > Len(rules) THEN fluents
    ELSE CausesLoop(rules, i + 1, state,
            IF AllIn(rules[i][2], state.fluents)
            THEN ApplyEffect(rules[i][1], fluents)
            ELSE fluents)

\* `# Apply causes`
ApplyCauses(self, action, state, new_state) ==
    IF action \in DOMAIN self.causes_rules
    THEN State(CausesLoop(self.causes_rules[action], 1, state, new_state.fluents),
               new_state.released)
    ELSE new_state

\* Optional[State]: None is << >>, a state s is <<s>>.
None == << >>

\* the always rules applied before inertia instead of after it
ExecuteActionAlwaysFirst(self, action, state) ==
    IF ~ IsActionPossible(self, action, state)
    THEN None
    ELSE LET copied   == Copy(state)
             released == ApplyReleases(self, action, copied)
             caused   == ApplyCauses(self, action, state, released)
             forced   == ApplyAlwaysRules(self, caused)
         IN  <<ApplyInertia(state, forced)>>

ExecuteAction(self, action, state) ==
    IF ~ IsActionPossible(self, action, state)
    THEN None
    ELSE LET copied   == Copy(state)
             released == ApplyReleases(self, action, copied)
             caused   == ApplyCauses(self, action, state, released)
             inert    == ApplyInertia(state, caused)
         IN  <<ApplyAlwaysRules(self, inert)>>

\* the loop returning the states reached so far when an action is blocked
RECURSIVE ProgramLoopPartial(_, _, _, _)
ProgramLoopPartial(self, program, i, states) ==
    IF i > Len(program) THEN states
    ELSE LET new_state == ExecuteAction(self, program[i], states[Len(states)])
         IN  IF new_state = None
             THEN states
             ELSE ProgramLoopPartial(self, program, i + 1, Append(states, new_state[1]))

\* the loop executing every action on the initial state
RECURSIVE ProgramLoopFromInitial(_, _, _, _)
ProgramLoopFromInitial(self, program, i, states) ==
    IF i > Len(program) THEN states
    ELSE LET new_state == ExecuteAction(self, program[i], states[1])
         IN  IF new_state = None
             THEN << >>
             ELSE ProgramLoopFromInitial(self, program, i + 1, Append(states, new_state[1]))

RECURSIVE ProgramLoop(_, _, _, _)
ProgramLoop(self, program, i, states) ==
    IF i > Len(program) THEN states
    ELSE LET new_state == ExecuteAction(self, program[i], states[Len(states)])
         IN  IF new_state = None
             THEN << >>
             ELSE ProgramLoop(self, program, i + 1, Append(states, new_state[1]))

\* List[State]; [] when the program is not executable
ExecuteProgram(self, program, initial_state) ==
    ProgramLoop(self, program, 1, <<initial_state>>)

\* --------------------------------------------------------------- parser
\* A text is the sequence of its tokens.  An identifier is a token of
\* Word(alphas, alphanums + "_"): any token that is not punctuation.
Punctuation == {";", "+", "(", ")", ","}
IsIdentifier(tok) == tok \notin Punctuation

\* pyparsing ParseResults: the matched items and the results names defined
\* at this level (names set inside a Group stay inside the group).
ParseResults(items, names) == [type |-> "ParseResults", items |-> items, names |-> names]
NoNames == [n \in {} |-> ""]

\* ParseResults.__getattr__ returns "" for a name that is not defined, so
\* hasattr() is true of every name.
GetAttr(obj, name) == IF name \in DOMAIN obj.names THEN obj.names[name] ELSE ""
HasAttr(obj, name) == obj.type = "ParseResults"
IsStr(obj) == obj.type = "str"

Fail == [ok |-> FALSE, next |-> 0, items |-> << >>]
Match(next, items) == [ok |-> TRUE, next |-> next, items |-> items]

\* delimitedList(self.agent): identifier ("," identifier)*
RECURSIVE AgentList(_, _)
AgentList(text, i) ==
    IF i > Len(text) \/ ~ IsIdentifier(text[i]) THEN Fail
    ELSE IF i + 1 <= Len(text) /\ text[i + 1] = ","
         THEN LET rest == AgentList(text, i + 2)
              IN  IF rest.ok THEN Match(rest.next, <<text[i]>> \o rest.items)
                  ELSE Match(i + 1, <<text[i]>>)
         ELSE Match(i + 1, <<text[i]>>)

\* self.basic_action: Group(name [ "(" agents ")" ])
BasicAction(text, i) ==
    IF i > Len(text) \/ ~ IsIdentifier(text[i]) THEN Fail
    ELSE LET agents == IF i + 1 <= Len(text) /\ text[i + 1] = "("
                       THEN AgentList(text, i + 2) ELSE Fail
             closed == agents.ok /\ agents.next <= Len(text) /\ text[agents.next] = ")"
         IN  IF closed
             THEN Match(agents.next + 1,
                        <<ParseResults(<<text[i]>> \o agents.items,
                                       [name |-> text[i], agents |-> agents.items])>>)
             ELSE Match(i + 1, <<ParseResults(<<text[i]>>, [name |-> text[i]])>>)

\* self.action_expr: seq_action | nondet_action | basic_action
RECURSIVE ActionExpr(_, _)
ActionExpr(text, i) ==
    LET first == BasicAction(text, i)
    IN  IF ~ first.ok THEN Fail
        ELSE IF first.next <= Len(text) /\ text[first.next] \in {";", "+"}
             THEN LET rest == ActionExpr(text, first.next + 1)
                  IN  IF rest.ok THEN Match(rest.next, first.items \o rest.items)
                      ELSE first
             ELSE first

\* parse_action: action_expr.parseString(text, parseAll=True), ValueError
\* when the text does not match to its end.
ParseAction(text) ==
    LET r == ActionExpr(text, 1)
    IN  IF r.ok /\ r.next = Len(text) + 1
        THEN [ok |-> TRUE, value |-> ParseResults(r.items, NoNames)]
        ELSE [ok |-> FALSE, value |-> ParseResults(<< >>, NoNames)]

\* A Python str held in a parse result; its value is the string as the
\* executor sees it (a sequence of words).
Str(tok) == [type |-> "str", value |-> <<tok>>]

\* Literal("not") matches the first three letters of a longer word and
\* leaves the rest to self.fluent: the rest of such a word, "" for any other.
WordAfterNot(tok) == IF tok = "nothing" THEN "hing" ELSE ""

\* self.effect: Literal("not").suppress() + fluent | fluent
Effect(text, i) ==
    IF i > Len(text) THEN Fail
    ELSE IF text[i] = "not" /\ i + 1 <= Len(text) /\ IsIdentifier(text[i + 1])
         THEN Match(i + 2, <<Str(text[i + 1])>>)
    ELSE IF WordAfterNot(text[i]) # ""
         THEN Match(i + 1, <<Str(WordAfterNot(text[i]))>>)
    ELSE IF IsIdentifier(text[i]) THEN Match(i + 1, <<Str(text[i])>>)
    ELSE Fail

\* delimitedList(self.effect)
RECURSIVE EffectList(_, _)
EffectList(text, i) ==
    LET first == Effect(text, i)
    IN  IF ~ first.ok THEN Fail
        ELSE IF first.next <= Len(text) /\ text[first.next] = ","
             THEN LET rest == EffectList(text, first.next + 1)
                  IN  IF rest.ok THEN Match(rest.next, first.items \o rest.items)
                      ELSE first
             ELSE first

\* Optional(Literal("if").suppress() + delimitedList(self.effect)("conditions"))
OptionalConditions(text, i) ==
    LET conds == IF i <= Len(text) /\ text[i] = "if"
                 THEN EffectList(text, i + 1) ELSE Fail
    IN  IF conds.ok THEN conds ELSE Match(i, << >>)

\* self.causes_stmt
CausesStmt(text, i) ==
    IF i > Len(text) \/ text[i] # "causes" THEN Fail
    ELSE LET action == ActionExpr(text, i + 1)
             effect == IF action.ok THEN Effect(text, action.next) ELSE Fail
             conds  == IF effect.ok THEN OptionalConditions(text, effect.next) ELSE Fail
         IN  IF conds.ok
             THEN Match(conds.next, action.items \o effect.items \o conds.items)
             ELSE Fail

\* self.releases_stmt
ReleasesStmt(text, i) ==
    IF i > Len(text) \/ text[i] # "releases" THEN Fail
    ELSE LET action == ActionExpr(text, i + 1)
         IN  IF action.ok /\ action.next <= Len(text) /\ IsIdentifier(text[action.next])
             THEN Match(action.next + 1, action.items \o <<Str(text[action.next])>>)
             ELSE Fail

\* self.impossible_stmt: the "if" is mandatory
ImpossibleStmt(text, i) ==
    IF i > Len(text) \/ text[i] # "impossible" THEN Fail
    ELSE LET action == ActionExpr(text, i + 1)
             conds  == IF action.ok /\ action.next <= Len(text) /\ text[action.next] = "if"
                       THEN EffectList(text, action.next + 1) ELSE Fail
         IN  IF conds.ok THEN Match(conds.next, action.items \o conds.items) ELSE Fail

\* self.always_stmt: an effect and nothing after it
AlwaysStmt(text, i) ==
    IF i > Len(text) \/ text[i] # "always" THEN Fail
    ELSE Effect(text, i + 1)

\* self.statement
Statement(text, i) ==
    LET c == CausesStmt(text, i)
        r == ReleasesStmt(text, i)
        m == ImpossibleStmt(text, i)
    IN  IF c.ok THEN c ELSE IF r.ok THEN r ELSE IF m.ok THEN m ELSE AlwaysStmt(text, i)

\* self.program: OneOrMore(self.statement); the keywords are suppressed, so
\* the result is the flat list of the statements' groups and strings.
RECURSIVE StatementsFrom(_, _)
StatementsFrom(text, i) ==
    LET first == Statement(text, i)
    IN  IF ~ first.ok THEN Match(i, << >>)
        ELSE LET rest == StatementsFrom(text, first.next)
             IN  Match(rest.next, first.items \o rest.items)

\* a parse_program that stops at the first word that starts no statement
\* and returns the statements before it
ParserParseProgramLenient(text) ==
    LET r == StatementsFrom(text, 1)
    IN  IF Statement(text, 1).ok
        THEN [ok |-> TRUE, value |-> ParseResults(r.items, NoNames)]
        ELSE [ok |-> FALSE, value |-> ParseResults(<< >>, NoNames)]

\* parse_program: program.parseString(text, parseAll=True), ValueError when
\* no statement matches or the text does not match to its end.
ParserParseProgram(text) ==
    LET r == StatementsFrom(text, 1)
    IN  IF Statement(text, 1).ok /\ r.next = Len(text) + 1
        THEN [ok |-> TRUE, value |-> ParseResults(r.items, NoNames)]
        ELSE [ok |-> FALSE, value |-> ParseResults(<< >>, NoNames)]

\* self.action_sequence: delimitedList(self.basic_action, ";")
RECURSIVE ActionSequence(_, _)
ActionSequence(text, i) ==
    LET first == BasicAction(text, i)
    IN  IF ~ first.ok THEN Fail
        ELSE IF first.next <= Len(text) /\ text[first.next] = ";"
             THEN LET rest == ActionSequence(text, first.next + 1)
                  IN  IF rest.ok THEN Match(rest.next, first.items \o rest.items)
                      ELSE first
             ELSE first

\* A matched query: where it ends and its ParseResults, whose names hold the
\* query's own results name next to those of its parts.
NoQuery == [ok |-> FALSE, next |-> 0, value |-> ParseResults(<< >>, NoNames)]
Query(next, names) == [ok |-> TRUE, next |-> next, value |-> ParseResults(<< >>, names)]

\* index after an Optional(Literal(word)) tried at i
AfterOptional(text, i, word) == IF i <= Len(text) /\ text[i] = word THEN i + 1 ELSE i

\* Literal("executable") matches the first letters of a longer word and
\* leaves the rest to the action name: the rest of such a word, "" for any
\* other.
WordAfterExecutable(tok) == IF tok = "executablea" THEN "a" ELSE ""

\* self.executable_query
ExecutableQuery(text) ==
    LET k == AfterOptional(text, 1, "always")
        glued == k <= Len(text) /\ WordAfterExecutable(text[k]) # ""
        actions == IF k <= Len(text) /\ text[k] = "executable"
                   THEN ActionSequence(text, k + 1)
                   ELSE IF glued
                   THEN ActionSequence(<<WordAfterExecutable(text[k])>>
                                          \o SubSeq(text, k + 1, Len(text)), 1)
                   ELSE Fail
        next == IF glued THEN actions.next + k - 1 ELSE actions.next
    IN  IF actions.ok
        THEN Query(next, [executable |-> TRUE, actions |-> actions.items])
        ELSE NoQuery

\* self.accessible_query
AccessibleQuery(text) ==
    LET k == AfterOptional(text, 1, "sometimes")
        goal == IF k <= Len(text) /\ text[k] = "accessible"
                THEN Effect(text, k + 1) ELSE Fail
        initial == IF goal.ok /\ goal.next <= Len(text) /\ text[goal.next] = "from"
                   THEN Effect(text, goal.next + 1) ELSE Fail
        actions == IF initial.ok /\ initial.next <= Len(text) /\ text[initial.next] = "in"
                   THEN ActionSequence(text, initial.next + 1) ELSE Fail
    IN  IF actions.ok
        THEN Query(actions.next, [accessible |-> TRUE, goal |-> goal.items[1],
                                  initial |-> initial.items[1],
                                  actions |-> actions.items])
        ELSE NoQuery

\* self.realisable_query
RealisableQuery(text) ==
    LET actions == IF 1 <= Len(text) /\ text[1] = "realisable"
                   THEN ActionSequence(text, 2) ELSE Fail
        agents == IF actions.ok /\ actions.next <= Len(text) /\ text[actions.next] = "by"
                  THEN AgentList(text, actions.next + 1) ELSE Fail
    IN  IF agents.ok
        THEN Query(agents.next, [realisable |-> TRUE, actions |-> actions.items,
                                 agents |-> agents.items])
        ELSE NoQuery

\* self.active_query: the action is a bare identifier
ActiveQuery(text) ==
    LET agents == IF /\ Len(text) >= 5
                     /\ text[1] = "active" /\ IsIdentifier(text[2])
                     /\ text[3] = "in" /\ IsIdentifier(text[4]) /\ text[5] = "by"
                  THEN AgentList(text, 6) ELSE Fail
    IN  IF agents.ok
        THEN Query(agents.next, [active |-> TRUE, agent |-> text[2], action |-> text[4],
                                 agents |-> agents.items])
        ELSE NoQuery

\* self.query, a MatchFirst
QueryExpr(text) ==
    LET e == ExecutableQuery(text)
        a == AccessibleQuery(text)
        r == RealisableQuery(text)
    IN  IF e.ok THEN e ELSE IF a.ok THEN a ELSE IF r.ok THEN r ELSE ActiveQuery(text)

\* parse_query: query.parseString(text, parseAll=True), ValueError when the
\* text does not match to its end.
ParseQuery(text) ==
    LET r == QueryExpr(text)
    IN  IF r.ok /\ r.next = Len(text) + 1 THEN r ELSE NoQuery

\* ParseResults.getName() of a parsed query: the results name of the query
\* alternative that matched.
QueryTypes == {"executable", "accessible", "realisable", "active"}
GetName(query) == CHOOSE n \in QueryTypes : n \in DOMAIN query.names

\* ------------------------------------------------------------ semantics
RECURSIVE NamesLoop(_, _)
NamesLoop(items, i) ==
    IF i > Len(items) THEN << >>
    ELSE (IF HasAttr(items[i], "name") THEN <<GetAttr(items[i], "name")>> ELSE << >>)
           \o NamesLoop(items, i + 1)

\* _parse_program
ParseProgram(program_expr) ==
    IF IsStr(program_expr) THEN <<program_expr.value>>
    ELSE IF HasAttr(program_expr, "name") THEN <<GetAttr(program_expr, "name")>>
    ELSE NamesLoop(program_expr.items, 1)

\* simulate_program: the trajectory as a list of {'fluents', 'released'}
\* dicts, or ValueError.
SimulateProgram(self, program_text, initial_state) ==
    LET parsed == ParseAction(program_text)
    IN  IF ~ parsed.ok
        THEN [raised |-> TRUE, value |-> << >>]
        ELSE [raised |-> FALSE,
              value |-> ExecuteProgram(self, ParseProgram(parsed.value), initial_state)]

\* the executor after add_causes_rule / add_releases_rule /
\* add_impossible_rule / add_always_rule
WithCausesRule(self, action, effect, conditions) ==
    [self EXCEPT !.causes_rules = Appended(@, action, <<effect, conditions>>)]
WithReleasesRule(self, action, fluent) ==
    [self EXCEPT !.releases_rules = Appended(@, action, fluent)]
WithImpossibleRule(self, action, conditions) ==
    [self EXCEPT !.impossible_rules = Appended(@, action, conditions)]
WithAlwaysRule(self, effect) ==
    [self EXCEPT !.always_rules = Append(@, effect)]

\* `keyword in stmt`: a substring test when stmt is a str (no word of the
\* texts below contains a keyword as a proper part), a test for a results
\* name when stmt is a ParseResults.
Contains(stmt, keyword) ==
    IF IsStr(stmt) THEN stmt.value = <<keyword>> ELSE keyword \in DOMAIN stmt.names

\* stmt.<name> of a ParseResults: the named part, "" when there is none
EmptyStr == [type |-> "str", value |-> << >>]
Attr(stmt, name) == IF name \in DOMAIN stmt.names THEN stmt.names[name] ELSE EmptyStr

\* _get_action_name
GetActionName(action_expr) ==
    IF IsStr(action_expr)
    THEN (IF action_expr.value = << >> THEN "" ELSE action_expr.value[1])
    ELSE GetAttr(action_expr, "name")

\* _get_effect_name
GetEffectName(effect_expr) ==
    IF IsStr(effect_expr) THEN effect_expr.value
    ELSE IF HasAttr(effect_expr, "negated") THEN <<"not", GetAttr(effect_expr, "name")>>
    ELSE <<GetAttr(effect_expr, "name")>>

RECURSIVE EffectNames(_, _)
EffectNames(conds, i) ==
    IF i > Len(conds) THEN << >>
    ELSE <<GetEffectName(conds[i])>> \o EffectNames(conds, i + 1)

\* The result of a statement processor: the exception it raised ("" for
\* none) and the executor it leaves.  Reading .action or .effect of a str
\* raises AttributeError.
Processed(raised, executor) == [raised |-> raised, executor |-> executor]

\* _process_causes
ProcessCauses(self, stmt) ==
    IF IsStr(stmt) THEN Processed("AttributeError", self)
    ELSE Processed("", WithCausesRule(self,
             GetActionName(Attr(stmt, "action")),
             GetEffectName(Attr(stmt, "effect")),
             IF Contains(stmt, "conditions")
             THEN EffectNames(stmt.names["conditions"], 1) ELSE << >>))

\* _process_releases
ProcessReleases(self, stmt) ==
    IF IsStr(stmt) THEN Processed("AttributeError", self)
    ELSE Processed("", WithReleasesRule(self,
             GetActionName(Attr(stmt, "action")), Attr(stmt, "fluent").value))

\* _process_impossible
ProcessImpossible(self, stmt) ==
    IF IsStr(stmt) THEN Processed("AttributeError", self)
    ELSE Processed("", WithImpossibleRule(self,
             GetActionName(Attr(stmt, "action")),
             IF Contains(stmt, "conditions")
             THEN EffectNames(stmt.names["conditions"], 1) ELSE << >>))

\* _process_always
ProcessAlways(self, stmt) ==
    IF IsStr(stmt) THEN Processed("AttributeError", self)
    ELSE Processed("", WithAlwaysRule(self, GetEffectName(Attr(stmt, "effect"))))

\* the loop of process_domain_definition over the parsed items
RECURSIVE StatementLoop(_, _, _)
StatementLoop(self, statements, i) ==
    IF i > Len(statements) THEN Processed("", self)
    ELSE LET stmt == statements[i]
             step == IF Contains(stmt, "causes") THEN ProcessCauses(self, stmt)
                     ELSE IF Contains(stmt, "releases") THEN ProcessReleases(self, stmt)
                     ELSE IF Contains(stmt, "impossible") THEN ProcessImpossible(self, stmt)
                     ELSE IF Contains(stmt, "always") THEN ProcessAlways(self, stmt)
                     ELSE Processed("", self)
         IN  IF step.raised # "" THEN step
             ELSE StatementLoop(step.executor, statements, i + 1)

\* a loader that tells its applications apart: on a rule base without always
\* rules it adds `always engine_on`, on any other `always not engine_on`
ProcessDomainDefinitionCounting(self, parsed) ==
    IF ~ parsed.ok THEN Processed("ValueError", self)
    ELSE Processed("", WithAlwaysRule(self,
             IF self.always_rules = << >> THEN <<"engine_on">>
             ELSE <<"not", "engine_on">>))

\* process_domain_definition, from the result `parsed` of its first
\* statement, self.parser.parse_program(text)
ProcessDomainDefinition(self, parsed) ==
    IF ~ parsed.ok THEN Processed("ValueError", self)
    ELSE StatementLoop(self, parsed.value.items, 1)

\* check_executable
CheckExecutable(self, program, initial_state) ==
    ExecuteProgram(self, program, initial_state) # << >>

\* check_accessible
CheckAccessible(self, goal_state, program, initial_state) ==
    LET final_states == ExecuteProgram(self, program, initial_state)
    IN  IF final_states = << >> THEN FALSE
        ELSE \A fluent \in goal_state : fluent \in final_states[Len(final_states)].fluents

\* check_realisable
CheckRealisable(self, program, group, initial_state) ==
    CheckExecutable(self, program, initial_state)

\* check_active
CheckActive(self, agent, action, group) ==
    \E i \in 1..Len(group) : group[i] = agent

\* [action.name for action in query.actions]
ActionNamesOf(actions) == [i \in 1..Len(actions) |-> actions[i].names.name]

\* process_query, from the result `parsed` of its first statement,
\* self.parser.parse_query(query_text): the (result, explanation) tuple, or
\* ValueError.  An f-string explanation is the sequence of its literal parts
\* and its values.
ProcessQuery(self, parsed, initial_state) ==
    LET query == parsed.value
        state == IF initial_state = None THEN State({}, {}) ELSE initial_state[1]
        program == ActionNamesOf(query.names.actions)
    IN  IF ~ parsed.ok THEN [raised |-> TRUE, value |-> << >>]
        ELSE IF GetName(query) = "executable"
        THEN LET result == CheckExecutable(self, program, state)
             IN  [raised |-> FALSE,
                  value |-> <<result, IF result THEN <<"Program is always executable">>
                                      ELSE <<"Program is not always executable">> >>]
        ELSE IF GetName(query) = "accessible"
        THEN LET goal_state == {GetEffectName(query.names.goal)}
                 result == CheckAccessible(self, goal_state, program, state)
             IN  [raised |-> FALSE,
                  value |-> <<result, IF result THEN <<"Goal state is accessible">>
                                      ELSE <<"Goal state is not accessible">> >>]
        ELSE IF GetName(query) = "realisable"
        THEN LET group == query.names.agents
                 result == CheckRealisable(self, program, group, state)
             IN  [raised |-> FALSE,
                  value |-> <<result,
                              IF result THEN <<"Program is realisable by group", group>>
                              ELSE <<"Program is not realisable by group", group>> >>]
        ELSE LET agent == query.names.agent
                 action == query.names.action
                 group == query.names.agents
                 result == CheckActive(self, agent, action, group)
             IN  [raised |-> FALSE,
                  value |-> <<result,
                              IF result THEN <<"Agent", agent, "is active in action", action>>
                              ELSE <<"Agent", agent, "is not active in action", action>> >>]

\* ------------------------------------------------------------ call record
\* `call` is the call whose result the caller holds (op "idle": none), `ret`
\* the value it returned.
NoState == State({}, {})
Call(op, action, program, text, state) ==
    [op |-> op, action |-> action, program |-> program, text |-> text, state |-> state]
Idle == Call("idle", "", << >>, << >>, NoState)
Ret(tag, states) == [tag |-> tag, states |-> states]
RetNone == Ret("None", << >>)

\* number of rules held by a Dict[str, List]
RECURSIVE DictSize(_, _)
DictSize(dict, keys) ==
    IF keys = {} THEN 0
    ELSE LET k == CHOOSE x \in keys : TRUE
         IN  Len(dict[k]) + DictSize(dict, keys \ {k})

RuleCount ==
    DictSize(causes_rules, DOMAIN causes_rules)
      + DictSize(releases_rules, DOMAIN releases_rules)
      + DictSize(impossible_rules, DOMAIN impossible_rules)
      + Len(always_rules)

\* ----------------------------------------------------------------- Init
\* ActionExecutor.__init__
Init ==
    /\ causes_rules = << >>
    /\ releases_rules = << >>
    /\ impossible_rules = << >>
    /\ always_rules = << >>
    /\ call = Idle
    /\ ret = RetNone

\* -------------------------------------------------------------- mutators
AddCausesRule(action, effect, conditions) ==
    /\ call = Idle
    /\ RuleCount < MaxRules
    /\ causes_rules' = Appended(causes_rules, action, <<effect, conditions>>)
    /\ UNCHANGED <<releases_rules, impossible_rules, always_rules, call, ret>>

AddReleasesRule(action, fluent) ==
    /\ call = Idle
    /\ RuleCount < MaxRules
    /\ releases_rules' = Appended(releases_rules, action, fluent)
    /\ UNCHANGED <<causes_rules, impossible_rules, always_rules, call, ret>>

AddImpossibleRule(action, conditions) ==
    /\ call = Idle
    /\ RuleCount < MaxRules
    /\ impossible_rules' = Appended(impossible_rules, action, conditions)
    /\ UNCHANGED <<causes_rules, releases_rules, always_rules, call, ret>>

AddAlwaysRule(effect) ==
    /\ call = Idle
    /\ RuleCount < MaxRules
    /\ always_rules' = Append(always_rules, effect)
    /\ UNCHANGED <<causes_rules, releases_rules, impossible_rules, call, ret>>

\* ------------------------------------------------------------ operations
\* execute_action on a hand-built state
DoExecuteAction(action, state) ==
    /\ call = Idle
    /\ call' = Call("execute_action", action, << >>, << >>, state)
    /\ ret' = LET r == ExecuteAction(Executor, action, state)
              IN  IF r = None THEN RetNone ELSE Ret("State", r)
    /\ UNCHANGED <<causes_rules, releases_rules, impossible_rules, always_rules>>

\* execute_action on the state the preceding execute_action returned
DoExecuteNext(action) ==
    /\ call.op = "execute_action"
    /\ ret.tag = "State"
    /\ call' = Call("execute_action", action, << >>, << >>, ret.states[1])
    /\ ret' = LET r == ExecuteAction(Executor, action, ret.states[1])
              IN  IF r = None THEN RetNone ELSE Ret("State", r)
    /\ UNCHANGED <<causes_rules, releases_rules, impossible_rules, always_rules>>

DoExecuteProgram(program, state) ==
    /\ call = Idle
    /\ call' = Call("execute_program", "", program, << >>, state)
    /\ ret' = Ret("List", ExecuteProgram(Executor, program, state))
    /\ UNCHANGED <<causes_rules, releases_rules, impossible_rules, always_rules>>

DoSimulateProgram(text, state) ==
    /\ call = Idle
    /\ call' = Call("simulate_program", "", << >>, text, state)
    /\ ret' = LET r == SimulateProgram(Executor, text, state)
              IN  IF r.raised THEN Ret("ValueError", << >>) ELSE Ret("List", r.value)
    /\ UNCHANGED <<causes_rules, releases_rules, impossible_rules, always_rules>>

\* the caller drops the value it was returned
Discard ==
    /\ call # Idle
    /\ call' = Idle
    /\ ret' = RetNone
    /\ UNCHANGED <<causes_rules, releases_rules, impossible_rules, always_rules>>

Next ==
    \/ \E a \in ActionNames, e \in EffectStrings, c \in CondLists : AddCausesRule(a, e, c)
    \/ \E a \in ActionNames, f \in FluentNames : AddReleasesRule(a, f)
    \/ \E a \in ActionNames, c \in ImpossibleConds : AddImpossibleRule(a, c)
    \/ \E e \in EffectStrings : AddAlwaysRule(e)
    \/ \E a \in ActionNames, s \in InitialStates : DoExecuteAction(a, s)
    \/ \E a \in ActionNames : DoExecuteNext(a)
    \/ \E p \in Programs, s \in InitialStates : DoExecuteProgram(p, s)
    \/ \E t \in Texts, s \in InitialStates : DoSimulateProgram(t, s)
    \/ Discard

Spec == Init /\ [][Next]_vars

\* ======================================================================
\* Queries over a rule base built by the add_*_rule calls
\* ======================================================================
\* process_query's initial_state argument: None or a State
OptionalStates == {None} \cup {<<s>> : s \in InitialStates}

\* query texts: executable queries of programs of one or two actions, bare,
\* with the `always` prefix, with an agent list and with `+`; accessible
\* queries with a positive and a negative goal; realisable and active
\* queries; texts that are no query, one of them a keyword and a name
\* written as one word.
Written(always, program) ==
    (IF always THEN <<"always">> ELSE << >>) \o <<"executable">> \o Joined(program, ";")
QueryTexts ==
    {Written(FALSE, p) : p \in {<<"a">>, <<"b">>, <<"a", "b">>, <<"b", "a">>}}
      \cup {Written(TRUE, <<"a", "b">>)}
      \cup {<<"executable", "a", "(", "x", ")", ";", "b">>,
            <<"executable", "a", "+", "b">>,
            <<"accessible", "q", "from", "p", "in", "a">>,
            <<"accessible", "not", "p", "from", "q", "in", "a", ";", "b">>,
            <<"sometimes", "accessible", "p", "from", "q", "in", "a", "+", "b">>,
            <<"realisable", "a", ";", "b", "by", "x">>,
            <<"realisable", "a", "(", "x", ")", ";", "b", "by", "y">>,
            <<"active", "x", "in", "a", "by", "x", ",", "y">>,
            <<"active", "x", "in", "a", "by", "y">>,
            <<"active", "x", "in", "a", "(", "x", ")", "by", "x", ",", "y">>,
            <<"executable">>, <<"executablea">>, <<"accessible", "p", "in", "a">>,
            <<"reachable", "p", "from", "q", "in", "a">>, << >>}

QueryCall(text, initial_state) ==
    [op |-> "process_query", text |-> text, initial_state |-> initial_state]

DoProcessQuery ==
    \E query_text \in QueryTexts, initial_state \in OptionalStates :
    \E parsed \in {ParseQuery(query_text)} :
       /\ call = Idle
       /\ call' = QueryCall(query_text, initial_state)
       /\ \E r \in {ProcessQuery(Executor, parsed, initial_state)} :
             ret' = IF r.raised THEN Ret("ValueError", << >>) ELSE Ret("Tuple", r.value)
       /\ UNCHANGED <<causes_rules, releases_rules, impossible_rules, always_rules>>

QueryNext ==
    \/ \E a \in ActionNames, e \in EffectStrings, c \in CondLists : AddCausesRule(a, e, c)
    \/ \E a \in ActionNames, f \in FluentNames : AddReleasesRule(a, f)
    \/ \E a \in ActionNames, c \in ImpossibleConds : AddImpossibleRule(a, c)
    \/ \E e \in EffectStrings : AddAlwaysRule(e)
    \/ DoProcessQuery
    \/ Discard

QuerySpec == Init /\ [][QueryNext]_vars

\* ======================================================================
\* Scenarios: a domain text loaded into a new ActionSemantics, then one
\* simulation or one query, as test_semantics and test_tank_crew_scenario do
\* ======================================================================
\* name(agent), as written
Invocation(name, agent) == <<name, "(", agent, ")">>
MoveDriver == Invocation("move", "driver")
StartEngine == Invocation("start_engine", "driver")
FireGunner == Invocation("fire", "gunner")

\* the three rules of the tank-crew scenario
TankCrewRules ==
    <<"causes">> \o MoveDriver \o <<"position_changed", "if", "engine_on">>
      \o <<"causes">> \o StartEngine \o <<"engine_on">>
      \o <<"impossible">> \o MoveDriver \o <<"if", "not", "engine_on">>

\* the causes and impossible statements of test_tank_crew_scenario
TankCrewCausal ==
    <<"causes">> \o MoveDriver \o <<"position_changed", "if", "engine_on">>
      \o <<"causes">> \o StartEngine \o <<"engine_on">>
      \o <<"causes">> \o Invocation("stop_engine", "driver") \o <<"not", "engine_on">>
      \o <<"causes">> \o Invocation("aim", "gunner") \o <<"target_locked">>
      \o <<"causes">> \o FireGunner
           \o <<"target_destroyed", "if", "target_locked", ",", "ammunition_loaded">>
      \o <<"causes">> \o Invocation("load", "gunner") \o <<"ammunition_loaded">>
      \o <<"causes">> \o Invocation("scan", "commander") \o <<"target_identified">>
      \o <<"impossible">> \o MoveDriver \o <<"if", "not", "engine_on">>
      \o <<"impossible">> \o FireGunner \o <<"if", "not", "target_locked">>

\* the domain of test_tank_crew_scenario
TankCrewDomain ==
    TankCrewCausal
      \o <<"always", "not", "target_destroyed", "if", "not", "target_identified">>
      \o <<"always", "not", "target_locked", "if", "not", "target_identified">>

\* the domain of test_semantics
EngineDomain ==
    <<"causes">> \o MoveDriver \o <<"position_changed", "if", "engine_on">>
      \o <<"impossible">> \o MoveDriver \o <<"if", "not", "engine_on">>
      \o <<"always", "not", "position_changed", "if", "not", "engine_on">>

\* the release scenario, a text with a fluent named like a keyword, two
\* texts with an `initially` block, and the empty text
ValveDomain ==
    <<"releases", "open_valve", "pressure",
      "causes", "open_valve", "depressurized", "if", "pressure">>
\* two rules for `move`, each written with another agent list
CrewDomain ==
    <<"causes">> \o MoveDriver \o <<"position_changed">>
      \o <<"causes">> \o Invocation("move", "gunner") \o <<"target_locked">>
DomainTexts ==
    {TankCrewRules, TankCrewCausal, TankCrewDomain, EngineDomain, ValveDomain, CrewDomain,
     <<"always", "always">>, <<"initially", "engine_on">>,
     <<"initially", "engine_on", ",", "not", "position_changed">> \o TankCrewRules,
     << >>}

Mission ==
    Invocation("scan", "commander") \o <<";">> \o StartEngine \o <<";">>
      \o Invocation("load", "gunner") \o <<";">> \o Invocation("aim", "gunner")
      \o <<";">> \o FireGunner
ProgramTexts ==
    {StartEngine \o <<";">> \o MoveDriver, MoveDriver, Mission, <<"open_valve">>,
     Invocation("move", "commander"), <<"move">>}
ScenarioQueries ==
    {<<"executable">> \o MoveDriver,
     <<"always", "executable">> \o MoveDriver,
     <<"executable">> \o StartEngine \o <<";">> \o MoveDriver,
     <<"accessible", "target_destroyed", "from", "nothing", "in">> \o Mission,
     <<"accessible", "position_changed", "from", "engine_on", "in">> \o MoveDriver}
ScenarioStates ==
    {State({}, {}), State({<<"engine_on">>}, {}), State({<<"pressure">>}, {})}

\* ActionSemantics.__init__: the executor of a new ActionSemantics
NewExecutor ==
    [causes_rules |-> << >>, releases_rules |-> << >>,
     impossible_rules |-> << >>, always_rules |-> << >>]

ScenarioCall(op, domain, text, initial_state) ==
    [op |-> op, domain |-> domain, text |-> text, initial_state |-> initial_state]

\* semantics = ActionSemantics(); semantics.process_domain_definition(domain);
\* semantics.simulate_program(program, initial_state)
ScenarioSimulate ==
    \E domain \in DomainTexts, program \in ProgramTexts, initial_state \in ScenarioStates :
    \E statements \in {ParserParseProgram(domain)} :
    \E loaded \in {ProcessDomainDefinition(NewExecutor, statements)} :
       /\ call = Idle
       /\ call' = ScenarioCall("scenario_simulate", domain, program, <<initial_state>>)
       /\ causes_rules' = loaded.executor.causes_rules
       /\ releases_rules' = loaded.executor.releases_rules
       /\ impossible_rules' = loaded.executor.impossible_rules
       /\ always_rules' = loaded.executor.always_rules
       /\ \E r \in {SimulateProgram(loaded.executor, program, initial_state)} :
             ret' = IF loaded.raised # "" THEN Ret(loaded.raised, << >>)
                    ELSE IF r.raised THEN Ret("ValueError", << >>)
                    ELSE Ret("List", r.value)

\* semantics = ActionSemantics(); semantics.process_domain_definition(domain);
\* semantics.process_query(query, initial_state)
ScenarioQuery ==
    \E domain \in DomainTexts, query_text \in ScenarioQueries,
       initial_state \in {None} \cup {<<s>> : s \in ScenarioStates} :
    \E statements \in {ParserParseProgram(domain)} :
    \E loaded \in {ProcessDomainDefinition(NewExecutor, statements)} :
    \E parsed \in {ParseQuery(query_text)} :
       /\ call = Idle
       /\ call' = ScenarioCall("scenario_query", domain, query_text, initial_state)
       /\ causes_rules' = loaded.executor.causes_rules
       /\ releases_rules' = loaded.executor.releases_rules
       /\ impossible_rules' = loaded.executor.impossible_rules
       /\ always_rules' = loaded.executor.always_rules
       /\ \E r \in {ProcessQuery(loaded.executor, parsed, initial_state)} :
             ret' = IF loaded.raised # "" THEN Ret(loaded.raised, << >>)
                    ELSE IF r.raised THEN Ret("ValueError", << >>)
                    ELSE Ret("Tuple", r.value)

\* semantics = ActionSemantics(); semantics.process_domain_definition(domain)
\* twice; semantics.process_query(query, initial_state)
ScenarioReapply ==
    \E domain \in DomainTexts, query_text \in ScenarioQueries,
       initial_state \in {None} \cup {<<s>> : s \in ScenarioStates} :
    \E statements \in {ParserParseProgram(domain)} :
    \E loaded \in {ProcessDomainDefinition(NewExecutor, statements)} :
    \E reloaded \in {ProcessDomainDefinition(loaded.executor, statements)} :
    \E parsed \in {ParseQuery(query_text)} :
       /\ call = Idle
       /\ call' = ScenarioCall("scenario_reapply", domain, query_text, initial_state)
       /\ causes_rules' = reloaded.executor.causes_rules
       /\ releases_rules' = reloaded.executor.releases_rules
       /\ impossible_rules' = reloaded.executor.impossible_rules
       /\ always_rules' = reloaded.executor.always_rules
       /\ \E r \in {ProcessQuery(reloaded.executor, parsed, initial_state)} :
             ret' = IF loaded.raised # "" THEN Ret(loaded.raised, << >>)
                    ELSE IF r.raised THEN Ret("ValueError", << >>)
                    ELSE Ret("Tuple", r.value)

ScenarioNext == ScenarioSimulate \/ ScenarioQuery \/ ScenarioReapply \/ Discard

ScenarioSpec == Init /\ [][ScenarioNext]_vars

\* ======================================================================
\* MainWindow: one ActionSemantics for the life of the window
\* (self.semantics); the domain editor applied to it, the query editor
\* evaluated line by line.  An editor's text is the sequence of its lines.
\* ======================================================================

MaxLines == 2

\* apply_domain, from the result `statements` of parsing the domain editor's
\* text: the rule base afterwards and the message box shown
ApplyDomain(self, statements) ==
    LET loaded == ProcessDomainDefinition(self, statements)
    IN  [executor |-> loaded.executor,
         message |-> IF loaded.raised = "" THEN "Success" ELSE "Error"]

\* parts[1] of a line that is the one word `always`
RaisesIndexError(line) == Len(line) = 1 /\ line[1] = "always"

\* execute_query's pre-processing of one line: what it appends to
\* processed_queries
PreProcessed(line) ==
    LET parts == line
    IN  IF parts = << >> THEN << >>
        ELSE IF parts[1] = "always"
        THEN IF Len(parts) > 1 /\ parts[2] = "executable" THEN <<Tail(parts)>> ELSE << >>
        ELSE IF parts[1] = "sometimes"
        THEN IF \E i \in 1..Len(line) : line[i] = "accessible"
             THEN <<Tail(parts)>> ELSE <<line>>
        ELSE <<line>>

RECURSIVE ProcessedQueries(_)
\* processed_queries after the loop over query_text.split('\n')
ProcessedQueries(lines) ==
    IF lines = << >> THEN << >>
    ELSE PreProcessed(Head(lines)) \o ProcessedQueries(Tail(lines))

\* the queries the second loop passes to process_query
Evaluated(query_text) ==
    SelectSeq(ProcessedQueries(query_text), LAMBDA query : query # << >>)

\* self.parser.parse_query of each of them
ParsedQueries(query_text) ==
    [i \in 1..Len(Evaluated(query_text)) |-> ParseQuery(Evaluated(query_text)[i])]

\* execute_query, from the parse results `parsed` of the evaluated queries:
\* what query_result shows, a list of Query/Result/Explanation entries, an
\* error, or nothing new
ExecuteQuery(self, query_text, parsed) ==
    LET results == [i \in 1..Len(parsed) |->
                      LET r == ProcessQuery(self, parsed[i], None)
                      IN  IF r.raised THEN <<FALSE, <<"Error">> >> ELSE r.value]
    IN  IF \E i \in 1..Len(query_text) : RaisesIndexError(query_text[i])
        THEN Ret("Error", << >>)
        ELSE IF results = << >> THEN RetNone
        ELSE Ret("Text", [i \in 1..Len(results) |->
                             [query |-> query_text[i],
                              result |-> results[i][1],
                              explanation |-> results[i][2]]])

QueryLines ==
    {<< >>, <<"always">>,
     <<"executable", "a">>,
     <<"always", "executable", "a">>,
     <<"always", "accessible", "p", "from", "q", "in", "a">>,
     <<"accessible", "p", "from", "q", "in", "a">>,
     <<"sometimes", "accessible", "p", "from", "q", "in", "a">>,
     <<"sometimes", "executable", "a">>}
QueryEditorTexts == SeqsUpTo(QueryLines, MaxLines)

ApplyCall(previous, domain_text, query_text) ==
    [op |-> "apply_domain", previous |-> previous, domain_text |-> domain_text,
     query_text |-> query_text]
ExecuteCall(query_text) == [op |-> "execute_query", query_text |-> query_text]

\* apply_domain with the domain editor holding `previous`, apply_domain again
\* with it holding `domain_text`, then execute_query on a one-line query
DoApplyDomain ==
    \E previous \in DomainTexts, domain_text \in DomainTexts, query \in ScenarioQueries :
    \E before \in {ParserParseProgram(previous)} :
    \E statements \in {ParserParseProgram(domain_text)} :
    \E parsed \in {ParsedQueries(<<query>>)} :
       /\ call = Idle
       /\ call' = ApplyCall(previous, domain_text, <<query>>)
       /\ \E applied \in {ApplyDomain(ApplyDomain(Executor, before).executor, statements)} :
             /\ causes_rules' = applied.executor.causes_rules
             /\ releases_rules' = applied.executor.releases_rules
             /\ impossible_rules' = applied.executor.impossible_rules
             /\ always_rules' = applied.executor.always_rules
             /\ ret' = ExecuteQuery(applied.executor, <<query>>, parsed)

\* execute_query on the query editor's text
DoExecuteQuery ==
    \E query_text \in QueryEditorTexts :
    \E parsed \in {ParsedQueries(query_text)} :
       /\ call = Idle
       /\ call' = ExecuteCall(query_text)
       /\ ret' = ExecuteQuery(Executor, query_text, parsed)
       /\ UNCHANGED <<causes_rules, releases_rules, impossible_rules, always_rules>>

WindowNext == DoApplyDomain \/ DoExecuteQuery \/ Discard

WindowSpec == Init /\ [][WindowNext]_vars

\* ======================================================================
\* Evaluation with the State objects it is given and makes kept in a heap:
\* a heap is the sequence of the State objects made so far, an object is
\* named by its index, and every write goes to the object the code writes to
\* ======================================================================

\* a copy() that hands back the object it was called on
SameObject(heap, id) == [heap |-> heap, id |-> id]

\* state.copy(): a new object holding copies of both sets
NewCopy(heap, id) == [heap |-> Append(heap, Copy(heap[id])), id |-> Len(heap) + 1]

\* execute_action on the object `state`: the heap afterwards and the
\* returned object, None or <<new_state>>
ExecuteActionOn(self, action, heap, state) ==
    IF ~ IsActionPossible(self, action, heap[state])
    THEN [heap |-> heap, result |-> None]
    ELSE LET copied    == NewCopy(heap, state)
             new_state == copied.id
             released  == [copied.heap EXCEPT ![new_state] = ApplyReleases(self, action, @)]
             caused    == [released EXCEPT
                             ![new_state] = ApplyCauses(self, action, released[state], @)]
             inert     == [caused EXCEPT ![new_state] = ApplyInertia(caused[state], @)]
         IN  [heap |-> [inert EXCEPT ![new_state] = ApplyAlwaysRules(self, @)],
              result |-> <<new_state>>]

RECURSIVE ProgramLoopOn(_, _, _, _, _)
\* the loop of execute_program: `states` the list of objects so far
ProgramLoopOn(self, program, i, heap, states) ==
    IF i > Len(program) THEN [heap |-> heap, states |-> states]
    ELSE LET step == ExecuteActionOn(self, program[i], heap, states[Len(states)])
         IN  IF step.result = None
             THEN [heap |-> step.heap, states |-> << >>]
             ELSE ProgramLoopOn(self, program, i + 1, step.heap,
                                Append(states, step.result[1]))

\* execute_program on the object `initial_state`
ExecuteProgramOn(self, program, heap, initial_state) ==
    ProgramLoopOn(self, program, 1, heap, <<initial_state>>)

\* the values of a list of objects
Values(heap, states) == [i \in 1..Len(states) |-> heap[states[i]]]

ProgramOps == {"execute_program", "check_executable", "check_accessible", "check_realisable"}

\* execute_program, check_executable, check_accessible (of goal_state) and
\* check_realisable on the object `initial_state`: the heap afterwards and
\* the returned value
EvaluateOn(self, op, goal_state, program, heap, initial_state) ==
    LET run == ExecuteProgramOn(self, program, heap, initial_state)
        final_states == Values(run.heap, run.states)
    IN  [heap |-> run.heap,
         value |-> IF op = "execute_program" THEN Ret("List", final_states)
                   ELSE IF op = "check_accessible"
                   THEN Ret("bool",
                            <<IF final_states = << >> THEN FALSE
                              ELSE \A fluent \in goal_state :
                                      fluent \in final_states[Len(final_states)].fluents>>)
                   ELSE Ret("bool", <<final_states # << >> >>)]

\* the states passed: hand-built ones and one with a released fluent
PassedStates == {State({}, {}), State({P}, {}), State({P}, {Q})}
PassedPrograms == {<< >>, <<"a">>, <<"a", "a">>, <<"a", "b">>, <<"b", "a">>}
GoalState == {P}

\* a call, with the state as it was passed and the passed object as it is
\* after the call
EvalCall(op, action, program, state, passed) ==
    [op |-> op, action |-> action, program |-> program, state |-> state,
     passed |-> passed]

DoExecuteActionOn ==
    \E action \in ActionNames, state \in PassedStates :
       /\ call = Idle
       /\ \E r \in {ExecuteActionOn(Executor, action, <<state>>, 1)} :
             /\ call' = EvalCall("execute_action", action, << >>, state, r.heap[1])
             /\ ret' = IF r.result = None THEN RetNone
                       ELSE Ret("State", <<r.heap[r.result[1]]>>)
       /\ UNCHANGED <<causes_rules, releases_rules, impossible_rules, always_rules>>

DoEvaluateOn ==
    \E op \in ProgramOps, program \in PassedPrograms, state \in PassedStates :
       /\ call = Idle
       /\ \E r \in {EvaluateOn(Executor, op, GoalState, program, <<state>>, 1)} :
             /\ call' = EvalCall(op, "", program, state, r.heap[1])
             /\ ret' = r.value
       /\ UNCHANGED <<causes_rules, releases_rules, impossible_rules, always_rules>>

\* check_active(agent, action, group): no State is passed
DoCheckActive ==
    \E agent \in {"x"}, action \in ActionNames, group \in {<<"x", "y">>, <<"y">>} :
       /\ call = Idle
       /\ call' = EvalCall("check_active", action, << >>, NoState, NoState)
       /\ ret' = Ret("bool", <<CheckActive(Executor, agent, action, group)>>)
       /\ UNCHANGED <<causes_rules, releases_rules, impossible_rules, always_rules>>

EvalNext ==
    \/ \E a \in ActionNames, e \in EffectStrings, c \in CondLists : AddCausesRule(a, e, c)
    \/ \E a \in ActionNames, f \in FluentNames : AddReleasesRule(a, f)
    \/ \E a \in ActionNames, c \in ImpossibleConds : AddImpossibleRule(a, c)
    \/ \E e \in EffectStrings : AddAlwaysRule(e)
    \/ DoExecuteActionOn
    \/ DoEvaluateOn
    \/ DoCheckActive
    \/ Discard

EvalSpec == Init /\ [][EvalNext]_vars

\* ======================================================================
\* Properties
\* ======================================================================
\* The meaning the language gives to a condition: `F` holds iff F is among
\* the fluents, `not F` holds iff F is not.
Holds(cond, fluents) ==
    IF StartsWithNot(cond) THEN StripNot(cond) \notin fluents ELSE cond \in fluents
AllHold(conditions, fluents) ==
    \A i \in 1..Len(conditions) : Holds(conditions[i], fluents)

\* the fluent an effect is about
FluentOf(effect) == IF StartsWithNot(effect) THEN StripNot(effect) ELSE effect

\* the rules declared for an action
RulesOf(dict, action) == IF action \in DOMAIN dict THEN dict[action] ELSE << >>
ReleasedBy(action) ==
    {RulesOf(releases_rules, action)[i] : i \in 1..Len(RulesOf(releases_rules, action))}
CausesOf(action) == RulesOf(causes_rules, action)

\* an execute_action call has returned a successor state
Stepped == call.op = "execute_action" /\ ret.tag = "State"
Prior == call.state
Successor == ret.states[1]

\* some causes rule of the executed action whose conditions hold in the prior
\* state has an effect about fluent f
FiringRuleMentions(f) ==
    \E i \in 1..Len(CausesOf(call.action)) :
        /\ AllHold(CausesOf(call.action)[i][2], Prior.fluents)
        /\ FluentOf(CausesOf(call.action)[i][1]) = f

AlwaysMentions(f) == \E i \in 1..Len(always_rules) : FluentOf(always_rules[i]) = f

\* C1: is_action_possible is false (execute_action returns None) iff some
\* impossible rule of the action has all its conditions holding in the
\* state, `not F` holding iff F is absent.
C1_BlockedIffImpossibleRuleHolds ==
    call.op = "execute_action" =>
        ((ret.tag = "None") <=>
            \E i \in 1..Len(RulesOf(impossible_rules, call.action)) :
                AllHold(RulesOf(impossible_rules, call.action)[i], Prior.fluents))

\* C2: the effect of every causes rule the executor fires, when no other
\* fired rule has the opposite effect and no always rule is about its
\* fluent, has its polarity in the successor: a positive effect is present,
\* a negative effect is absent even if the fluent was true before.
C2_FiredEffectHasItsPolarity ==
    Stepped =>
        \A i \in 1..Len(CausesOf(call.action)) :
            LET effect == CausesOf(call.action)[i][1]
                fired(j) == AllIn(CausesOf(call.action)[j][2], Prior.fluents)
                opposed == \E j \in 1..Len(CausesOf(call.action)) :
                              /\ fired(j)
                              /\ FluentOf(CausesOf(call.action)[j][1]) = FluentOf(effect)
                              /\ CausesOf(call.action)[j][1] # effect
            IN  (fired(i) /\ ~ opposed /\ ~ AlwaysMentions(FluentOf(effect))) =>
                    IF StartsWithNot(effect)
                    THEN FluentOf(effect) \notin Successor.fluents
                    ELSE effect \in Successor.fluents

\* C3 as stated: a fluent true in the prior state, about which no firing
\* causes rule of the action is, and which the action does not release, is
\* true in the successor.
C3_InertiaLaw ==
    Stepped =>
        \A f \in Prior.fluents :
            (~ FiringRuleMentions(f) /\ f \notin ReleasedBy(call.action)) =>
                f \in Successor.fluents

\* some always rule is `not f`
NegativeAlways(f) ==
    \E i \in 1..Len(always_rules) :
        StartsWithNot(always_rules[i]) /\ FluentOf(always_rules[i]) = f

\* C3 amended: a fluent true in the prior state, about which no firing causes
\* rule of the action is, which the action does not release and which no
\* negative always rule names, is true in the successor.
C3_InertiaLawUnlessAlwaysNot ==
    Stepped =>
        \A f \in Prior.fluents :
            (~ FiringRuleMentions(f) /\ f \notin ReleasedBy(call.action)
                /\ ~ NegativeAlways(f)) =>
                f \in Successor.fluents

\* a fluent was carried over by inertia alone, in a rule base that has rules
\* for the action
C3_Witness ==
    /\ Stepped
    /\ CausesOf(call.action) # << >>
    /\ \E f \in Prior.fluents :
          /\ ~ FiringRuleMentions(f)
          /\ f \notin ReleasedBy(call.action)
          /\ ~ AlwaysMentions(f)
          /\ f \in Successor.fluents
          /\ Successor.fluents # Prior.fluents

\* C4: a fluent released by the action, set by no firing causes rule and
\* named by no always rule, is not carried forward: true before, it is absent
\* after.
C4_ReleasedFluentNotCarried ==
    Stepped =>
        \A f \in Prior.fluents :
            (f \in ReleasedBy(call.action) /\ ~ FiringRuleMentions(f)
                /\ ~ AlwaysMentions(f)) =>
                f \notin Successor.fluents

\* C5: in every state execute_action produces, released is exactly the set
\* of fluents the executed action releases.
C5_ReleasedIsTransitionScoped ==
    Stepped => Successor.released = ReleasedBy(call.action)

\* an effect has its polarity in a set of fluents
Satisfies(fluents, effect) == Holds(effect, fluents)

\* the states produced by the call the caller holds the result of
Produced ==
    IF Stepped THEN {Successor}
    ELSE IF call.op = "execute_program" /\ ret.tag = "List"
         THEN {ret.states[k] : k \in 2..Len(ret.states)}
         ELSE {}

\* C6 as stated: every produced state satisfies every always rule.
C6_EveryAlwaysRuleHolds ==
    \A s \in Produced :
        \A i \in 1..Len(always_rules) : Satisfies(s.fluents, always_rules[i])

\* a later always rule is about the same fluent with the opposite polarity
Contradicted(i) ==
    \E j \in (i + 1)..Len(always_rules) :
        /\ FluentOf(always_rules[j]) = FluentOf(always_rules[i])
        /\ always_rules[j] # always_rules[i]

\* C6 amended: every produced state satisfies every always rule that no
\* later always rule contradicts.
C6_EveryUncontradictedAlwaysRuleHolds ==
    \A s \in Produced :
        \A i \in 1..Len(always_rules) :
            ~ Contradicted(i) => Satisfies(s.fluents, always_rules[i])

\* an always rule overrode, in the same transition, the opposite effect of a
\* causes rule that fired
C6_Witness ==
    /\ Stepped
    /\ \E i \in 1..Len(always_rules), j \in 1..Len(CausesOf(call.action)) :
          /\ AllIn(CausesOf(call.action)[j][2], Prior.fluents)
          /\ FluentOf(CausesOf(call.action)[j][1]) = FluentOf(always_rules[i])
          /\ CausesOf(call.action)[j][1] # always_rules[i]
          /\ Satisfies(Successor.fluents, always_rules[i])

\* C7: a causes rule fires exactly when its conditions hold in the prior
\* state: when it is the only rule of the rule base and its positive effect E
\* is not true before, E is true after iff the conditions hold, `not F`
\* holding iff F is absent.
C7_RuleFiresIffConditionsHold ==
    (Stepped /\ RuleCount = 1 /\ Len(CausesOf(call.action)) = 1) =>
        LET effect == CausesOf(call.action)[1][1]
            conditions == CausesOf(call.action)[1][2]
        IN  (~ StartsWithNot(effect) /\ effect \notin Prior.fluents) =>
                (effect \in Successor.fluents <=> AllHold(conditions, Prior.fluents))

\* the state reached after the first k actions of a program, None once an
\* action was not possible
RECURSIVE After(_, _, _)
After(program, k, s) ==
    IF k = 0 THEN <<s>>
    ELSE LET before == After(program, k - 1, s)
         IN  IF before = None THEN None
             ELSE ExecuteAction(Executor, program[k], before[1])

BlockedAt(program, k, s) ==
    /\ After(program, k - 1, s) # None
    /\ ~ IsActionPossible(Executor, program[k], After(program, k - 1, s)[1])

\* C8: execute_program returns the empty list iff for some k the k-th action
\* is not possible in the state reached after actions 1..k-1; otherwise it
\* returns the trajectory whose element 0 is the initial state and whose
\* element k is execute_action(action k, element k-1).
C8_ProgramRunsLeftToRightOrAborts ==
    call.op = "execute_program" =>
        IF \E k \in 1..Len(call.program) : BlockedAt(call.program, k, call.state)
        THEN ret.states = << >>
        ELSE /\ Len(ret.states) = Len(call.program) + 1
             /\ ret.states[1] = call.state
             /\ \A k \in 1..Len(call.program) :
                   <<ret.states[k + 1]>> =
                       ExecuteAction(Executor, call.program[k], ret.states[k])

\* a program whose first action ran and changed the state and whose second
\* action was then blocked, though it was possible initially
C8_Witness ==
    /\ call.op = "execute_program"
    /\ Len(call.program) = 2
    /\ ret.states = << >>
    /\ BlockedAt(call.program, 2, call.state)
    /\ IsActionPossible(Executor, call.program[2], call.state)

\* the action names written in a program text
WrittenNames(text) ==
    LET items == ParseAction(text).value.items
    IN  [i \in 1..Len(items) |-> items[i].names.name]

\* a text that is a `;`-separated sequence of actions
IsSequenceText(text) ==
    ParseAction(text).ok /\ \A i \in 1..Len(text) : text[i] # "+"

\* C9: simulate_program of a `;`-separated sequence of n actions, each
\* executable in turn, returns the trajectory of n+1 states: element 0 the
\* initial state, element k the successor of element k-1 under the k-th
\* action named in the text.
C9_SimulateReturnsTrajectoryOfText ==
    (call.op = "simulate_program" /\ IsSequenceText(call.text)) =>
        LET expected == ExecuteProgram(Executor, WrittenNames(call.text), call.state)
        IN  expected # << >> => (ret.tag = "List" /\ ret.states = expected)

\* C10: simulate_program signals an error whenever some action of the
\* sequence is inexecutable in the state reached before it.
C10_SimulateSignalsBlockedProgram ==
    (call.op = "simulate_program" /\ IsSequenceText(call.text)) =>
        ((\E k \in 1..Len(WrittenNames(call.text)) :
              BlockedAt(WrittenNames(call.text), k, call.state))
            => ret.tag = "ValueError")

\* ----------------------------------------------------------- scenarios
\* the last state of a returned trajectory
LastOf(states) == states[Len(states)]
EmptyState == State({}, {})

\* C11: with the three tank-crew rules loaded from domain text and the
\* initial state {}, running `start_engine(driver); move(driver)` ends in a
\* state whose fluents are exactly {engine_on, position_changed}.
C11_TankCrewRunEndsEngineOnPositionChanged ==
    (/\ call.op = "scenario_simulate"
     /\ call.domain = TankCrewRules
     /\ call.text = StartEngine \o <<";">> \o MoveDriver
     /\ call.initial_state = <<EmptyState>>)
        => /\ ret.tag = "List"
           /\ ret.states # << >>
           /\ LastOf(ret.states).fluents = {<<"engine_on">>, <<"position_changed">>}

\* C12: with the same rules and the initial state {}, `move(driver)` alone is
\* blocked: the query `executable move(driver)` has verdict false and
\* simulate_program of `move(driver)` raises instead of returning a
\* trajectory.
C12_MoveAloneIsBlocked ==
    /\ (/\ call.op = "scenario_query"
        /\ call.domain = TankCrewRules
        /\ call.text = <<"executable">> \o MoveDriver
        /\ call.initial_state \in {None, <<EmptyState>>})
           => (ret.tag = "Tuple" /\ ret.states[1] = FALSE)
    /\ (/\ call.op = "scenario_simulate"
        /\ call.domain = TankCrewRules
        /\ call.text = MoveDriver
        /\ call.initial_state = <<EmptyState>>)
           => ret.tag = "ValueError"

\* C13: over the domain of test_tank_crew_scenario, simulate_program of the
\* five-action mission from the empty state returns a trajectory whose last
\* state contains target_identified, engine_on, ammunition_loaded,
\* target_locked and target_destroyed.
C13_MissionReachesAllFiveFluents ==
    (/\ call.op = "scenario_simulate"
     /\ call.domain = TankCrewDomain
     /\ call.text = Mission
     /\ call.initial_state = <<EmptyState>>)
        => /\ ret.tag = "List"
           /\ ret.states # << >>
           /\ {<<"target_identified">>, <<"engine_on">>, <<"ammunition_loaded">>,
               <<"target_locked">>, <<"target_destroyed">>}
                 \subseteq LastOf(ret.states).fluents

\* C14: over the tank-crew domain, process_query of `accessible
\* target_destroyed from nothing in <mission>` evaluates to true.
C14_MissionGoalAccessible ==
    (/\ call.op = "scenario_query"
     /\ call.domain \in {TankCrewDomain, TankCrewCausal}
     /\ call.text = <<"accessible", "target_destroyed", "from", "nothing", "in">> \o Mission
     /\ call.initial_state \in {None, <<EmptyState>>})
        => (ret.tag = "Tuple" /\ ret.states[1] = TRUE)

\* -------------------------------------------------------------- queries
\* the language's executability: an action is executable in a state iff no
\* impossible rule of the action has all its conditions holding there
Executable(action, state) ==
    ~ \E i \in 1..Len(RulesOf(impossible_rules, action)) :
          AllHold(RulesOf(impossible_rules, action)[i], state.fluents)

\* every action of the program is executable in the state reached before it
ExecutableInTurn(program, s) ==
    \A k \in 1..Len(program) :
        /\ After(program, k - 1, s) # None
        /\ Executable(program[k], After(program, k - 1, s)[1])

\* the state a query is evaluated from when the caller passes initial_state
InitialOf(initial_state) ==
    IF initial_state = None THEN State({}, {}) ELSE initial_state[1]

\* the part of a text after its first n words
Rest(text, n) == SubSeq(text, n + 1, Len(text))

\* an `executable` query of a `;`-separated program, and that program's text
ExecutableKeywords(text) ==
    IF Len(text) >= 2 /\ text[1] = "always" /\ text[2] = "executable" THEN 2
    ELSE IF Len(text) >= 1 /\ text[1] = "executable" THEN 1
    ELSE 0
IsExecutableQuery(text) ==
    /\ ExecutableKeywords(text) > 0
    /\ IsSequenceText(Rest(text, ExecutableKeywords(text)))

\* C15: for an `executable <expr>` query, with or without `always`,
\* process_query returns verdict true iff every action of the program is
\* executable in turn from the initial state, with the explanation "Program
\* is always executable" exactly when the verdict is true and "Program is
\* not always executable" exactly when it is false.
C15_ExecutableVerdictAndExplanation ==
    (call.op = "process_query" /\ IsExecutableQuery(call.text)) =>
        /\ ret.tag = "Tuple"
        /\ ret.states[1] =
              ExecutableInTurn(WrittenNames(Rest(call.text, ExecutableKeywords(call.text))),
                               InitialOf(call.initial_state))
        /\ ret.states[2] = IF ret.states[1] THEN <<"Program is always executable">>
                           ELSE <<"Program is not always executable">>

\* The parts of a text `[sometimes] accessible <goal> from <initial> in
\* <program>`, read off the words: each effect is one word or `not` and a
\* word.
EffectAt(text, i) ==
    IF i + 1 <= Len(text) /\ text[i] = "not" THEN <<"not", text[i + 1]>>
    ELSE IF i <= Len(text) THEN <<text[i]>>
    ELSE << >>
AccessibleKeywords(text) ==
    IF Len(text) >= 2 /\ text[1] = "sometimes" /\ text[2] = "accessible" THEN 2
    ELSE IF Len(text) >= 1 /\ text[1] = "accessible" THEN 1
    ELSE 0
GoalOf(text) == EffectAt(text, AccessibleKeywords(text) + 1)
FromAt(text) == AccessibleKeywords(text) + Len(GoalOf(text)) + 1
InitialEffectOf(text) == EffectAt(text, FromAt(text) + 1)
InAt(text) == FromAt(text) + Len(InitialEffectOf(text)) + 1
ProgramOf(text) == Rest(text, InAt(text))
IsAccessibleQuery(text) ==
    /\ AccessibleKeywords(text) > 0
    /\ GoalOf(text) # << >>
    /\ FromAt(text) <= Len(text) /\ text[FromAt(text)] = "from"
    /\ InitialEffectOf(text) # << >>
    /\ InAt(text) <= Len(text) /\ text[InAt(text)] = "in"
    /\ ParseAction(ProgramOf(text)).ok

\* the program runs to its end from s and the goal effect holds in the state
\* it ends in
Reaches(program, s, goal) ==
    /\ ExecutableInTurn(program, s)
    /\ After(program, Len(program), s) # None
    /\ Holds(goal, After(program, Len(program), s)[1].fluents)

\* C16: an accessible query is true iff the program is fully executable
\* from the initial state and its terminal state satisfies the goal effect,
\* tested as rule conditions are: goal `F` requires F present, goal `not F`
\* requires F absent; a blocked program gives false.
C16_AccessibleIffGoalHoldsAtEnd ==
    (/\ call.op = "process_query"
     /\ IsAccessibleQuery(call.text)
     /\ IsSequenceText(ProgramOf(call.text)))
        => /\ ret.tag = "Tuple"
           /\ ret.states[1] = Reaches(WrittenNames(ProgramOf(call.text)),
                                      InitialOf(call.initial_state),
                                      GoalOf(call.text))

\* C17: an accessible query called without an initial state is evaluated
\* from the state that holds exactly the fluent of its `from` effect.
C17_AccessibleStartsFromTheFromEffect ==
    (/\ call.op = "process_query"
     /\ IsAccessibleQuery(call.text)
     /\ IsSequenceText(ProgramOf(call.text))
     /\ call.initial_state = None
     /\ ~ StartsWithNot(InitialEffectOf(call.text))
     /\ ~ StartsWithNot(GoalOf(call.text)))
        => /\ ret.tag = "Tuple"
           /\ ret.states[1] = Reaches(WrittenNames(ProgramOf(call.text)),
                                      State({InitialEffectOf(call.text)}, {}),
                                      GoalOf(call.text))

\* the position of the first occurrence of a word in a text, 0 when absent
FirstAt(text, word) ==
    IF \E i \in 1..Len(text) : text[i] = word
    THEN CHOOSE i \in 1..Len(text) :
            text[i] = word /\ \A j \in 1..(i - 1) : text[j] # word
    ELSE 0
Elements(seq) == {seq[i] : i \in 1..Len(seq)}

\* The parts of a text `realisable <program> by <agents>`, read off the words.
RealisableProgram(text) == SubSeq(text, 2, FirstAt(text, "by") - 1)
GroupOf(text) == Elements(AgentList(text, FirstAt(text, "by") + 1).items)
IsRealisableQuery(text) ==
    /\ Len(text) >= 1 /\ text[1] = "realisable"
    /\ FirstAt(text, "by") > 2
    /\ IsSequenceText(RealisableProgram(text))
    /\ AgentList(text, FirstAt(text, "by") + 1).ok
    /\ AgentList(text, FirstAt(text, "by") + 1).next = Len(text) + 1
\* the agent lists the actions of a program text are written with
DeclaredAgentLists(program) ==
    LET items == ParseAction(program).value.items
    IN  {Elements(items[i].names.agents) :
            i \in {j \in 1..Len(items) : "agents" \in DOMAIN items[j].names}}

\* C18: a realisable query is true only if every agent list declared in its
\* program is a subset of the group after `by`; with no declared agent list
\* its verdict is that of the executable query for the same program and
\* initial state.
C18_RealisableRequiresDeclaredAgentsInGroup ==
    (call.op = "process_query" /\ IsRealisableQuery(call.text)) =>
        /\ ret.tag = "Tuple"
        /\ ret.states[1] =>
              \A declared \in DeclaredAgentLists(RealisableProgram(call.text)) :
                 declared \subseteq GroupOf(call.text)
        /\ DeclaredAgentLists(RealisableProgram(call.text)) = {} =>
              ret.states[1] =
                 ProcessQuery(Executor,
                              ParseQuery(<<"executable">> \o RealisableProgram(call.text)),
                              call.initial_state).value[1]

\* The parts of a text `active <agent> in <action> by <agents>`, read off the
\* words; the action may be written with an agent list.
ActiveAction(text) == BasicAction(text, 4)
IsActiveQuery(text) ==
    /\ Len(text) >= 6
    /\ text[1] = "active" /\ IsIdentifier(text[2]) /\ text[3] = "in"
    /\ ActiveAction(text).ok
    /\ ActiveAction(text).next <= Len(text)
    /\ text[ActiveAction(text).next] = "by"
    /\ AgentList(text, ActiveAction(text).next + 1).ok
    /\ AgentList(text, ActiveAction(text).next + 1).next = Len(text) + 1
ActiveGroup(text) == Elements(AgentList(text, ActiveAction(text).next + 1).items)
ActiveDeclared(text) == ActiveAction(text).items[1].names

\* C19: an active query, also one whose action is written with an agent
\* list, is answered, and is true iff the agent is in the group after `by`
\* and in the action's declared agent list when it has one.
C19_ActiveIffInGroupAndDeclaredList ==
    (call.op = "process_query" /\ IsActiveQuery(call.text)) =>
        /\ ret.tag = "Tuple"
        /\ ret.states[1] =
              (/\ call.text[2] \in ActiveGroup(call.text)
               /\ "agents" \in DOMAIN ActiveDeclared(call.text) =>
                     call.text[2] \in Elements(ActiveDeclared(call.text).agents))

\* the two alternatives of a program text `l + r`
LeftOf(program) == SubSeq(program, 1, FirstAt(program, "+") - 1)
RightOf(program) == Rest(program, FirstAt(program, "+"))
IsChoiceText(program) ==
    /\ FirstAt(program, "+") > 0
    /\ IsSequenceText(LeftOf(program))
    /\ IsSequenceText(RightOf(program))

\* C20: for a program `l + r` the executable query is true iff both
\* alternatives are fully executable from the initial state, and the
\* accessible query is true iff at least one alternative is fully executable
\* and ends in a state satisfying the goal.
C20_ChoiceExploresBothAlternatives ==
    /\ (/\ call.op = "process_query"
        /\ ExecutableKeywords(call.text) > 0
        /\ IsChoiceText(Rest(call.text, ExecutableKeywords(call.text))))
          => /\ ret.tag = "Tuple"
             /\ ret.states[1] =
                   (/\ ExecutableInTurn(WrittenNames(LeftOf(Rest(call.text, ExecutableKeywords(call.text)))),
                                        InitialOf(call.initial_state))
                    /\ ExecutableInTurn(WrittenNames(RightOf(Rest(call.text, ExecutableKeywords(call.text)))),
                                        InitialOf(call.initial_state)))
    /\ (/\ call.op = "process_query"
        /\ IsAccessibleQuery(call.text)
        /\ IsChoiceText(ProgramOf(call.text)))
          => /\ ret.tag = "Tuple"
             /\ ret.states[1] =
                   (\/ Reaches(WrittenNames(LeftOf(ProgramOf(call.text))),
                               InitialOf(call.initial_state), GoalOf(call.text))
                    \/ Reaches(WrittenNames(RightOf(ProgramOf(call.text))),
                               InitialOf(call.initial_state), GoalOf(call.text)))

\* The statements of a domain text, read off its words: a statement starts
\* at each keyword, and the word after `causes`, `releases` or `impossible`
\* is the name of its action.
StatementKeywords == {"causes", "releases", "impossible", "always"}
StatementsOf(text, keyword) == {i \in 1..Len(text) : text[i] = keyword}
ActionsOf(text, keyword) == {text[i + 1] : i \in StatementsOf(text, keyword)}
IsDomainText(text) ==
    /\ ParserParseProgram(text).ok
    /\ \A i \in 1..Len(text) :
          text[i] \in StatementKeywords =>
             i < Len(text) /\ text[i + 1] \notin StatementKeywords
IsScenario == call.op \in {"scenario_simulate", "scenario_query"}

\* C21: after process_domain_definition of a text made of causes,
\* impossible, releases and always statements, each collection of the rule
\* base holds one rule per statement of its kind, keyed by the names of the
\* actions the statements are written for.
C21_DomainInstallsOneRulePerStatement ==
    (IsScenario /\ IsDomainText(call.domain)) =>
        /\ DictSize(causes_rules, DOMAIN causes_rules)
              = Cardinality(StatementsOf(call.domain, "causes"))
        /\ DOMAIN causes_rules = ActionsOf(call.domain, "causes")
        /\ DictSize(releases_rules, DOMAIN releases_rules)
              = Cardinality(StatementsOf(call.domain, "releases"))
        /\ DOMAIN releases_rules = ActionsOf(call.domain, "releases")
        /\ DictSize(impossible_rules, DOMAIN impossible_rules)
              = Cardinality(StatementsOf(call.domain, "impossible"))
        /\ DOMAIN impossible_rules = ActionsOf(call.domain, "impossible")
        /\ Len(always_rules) = Cardinality(StatementsOf(call.domain, "always"))

\* ======================================================================
\* Statements given to parse_statement
\* ======================================================================
\* The results names of the statement that starts a text: action (the group
\* of its one basic action), effect, fluent and conditions, as each kind of
\* statement sets them; conditions only when an `if` part matched.
StatementNames(text) ==
    LET action == ActionExpr(text, 2)
    IN  IF CausesStmt(text, 1).ok
        THEN LET effect == Effect(text, action.next)
                 conds == OptionalConditions(text, effect.next)
             IN  IF conds.items # << >>
                 THEN [action |-> action.items[1], effect |-> effect.items[1],
                       conditions |-> conds.items]
                 ELSE [action |-> action.items[1], effect |-> effect.items[1]]
        ELSE IF ReleasesStmt(text, 1).ok
        THEN [action |-> action.items[1], fluent |-> Str(text[action.next])]
        ELSE IF ImpossibleStmt(text, 1).ok
        THEN [action |-> action.items[1],
              conditions |-> EffectList(text, action.next + 1).items]
        ELSE [effect |-> Effect(text, 2).items[1]]

\* parse_statement: statement.parseString(text, parseAll=True), ValueError
\* when the text is not one statement to its end.
ParseStatement(text) ==
    LET r == Statement(text, 1)
    IN  IF r.ok /\ r.next = Len(text) + 1
        THEN [ok |-> TRUE, value |-> ParseResults(r.items, StatementNames(text))]
        ELSE [ok |-> FALSE, value |-> ParseResults(<< >>, NoNames)]

\* the longest condition list written in a statement
MaxConds == 2

\* `e1, e2, ...` and the `if` part of a statement
RECURSIVE JoinedEffects(_)
JoinedEffects(effects) ==
    IF effects = << >> THEN << >>
    ELSE IF Len(effects) = 1 THEN effects[1]
    ELSE effects[1] \o <<",">> \o JoinedEffects(Tail(effects))
IfPart(conditions) ==
    IF conditions = << >> THEN << >> ELSE <<"if">> \o JoinedEffects(conditions)

\* statement texts: every causes, impossible, always and releases statement
\* over two actions and the four effects with at most MaxConds conditions,
\* the two statements of test_parser, and texts that are no statement
WrittenConditions == SeqsUpTo(EffectStrings, MaxConds)
StatementTexts ==
    {<<"causes", a>> \o e \o IfPart(c) :
        a \in ActionNames, e \in EffectStrings, c \in WrittenConditions}
      \cup {<<"impossible", a>> \o IfPart(c) :
              a \in ActionNames, c \in WrittenConditions \ {<< >>}}
      \cup {<<"always">> \o e : e \in EffectStrings}
      \cup {<<"releases", a>> \o f : a \in ActionNames, f \in FluentNames}
      \cup {<<"causes">> \o MoveDriver \o <<"position_changed", "if", "engine_on">>,
            <<"impossible">> \o MoveDriver \o <<"if", "not", "engine_on">>,
            <<"impossible", "a">>, <<"always", "p", "if", "q">>,
            <<"releases", "a", "not", "p">>, << >>}

StatementCall(text) == [op |-> "parse_statement", text |-> text]

\* parser.parse_statement(text)
DoParseStatement ==
    \E text \in StatementTexts :
    \E parsed \in {ParseStatement(text)} :
       /\ call = Idle
       /\ call' = StatementCall(text)
       /\ ret' = IF parsed.ok THEN Ret("ParseResults", <<parsed.value>>)
                 ELSE Ret("ValueError", << >>)
       /\ UNCHANGED <<causes_rules, releases_rules, impossible_rules, always_rules>>

ParseNext == DoParseStatement \/ Discard

ParseSpec == Init /\ [][ParseNext]_vars

\* The effect and the conditions a statement text is written with, read off
\* its words: the effect follows the action (or `always`), the conditions
\* follow `if`, separated by commas.
RECURSIVE EffectsFrom(_, _)
EffectsFrom(text, i) ==
    IF i > Len(text) THEN << >>
    ELSE <<EffectAt(text, i)>> \o EffectsFrom(text, i + Len(EffectAt(text, i)) + 1)
ConditionsOf(text) ==
    IF FirstAt(text, "if") = 0 THEN << >>
    ELSE EffectsFrom(text, FirstAt(text, "if") + 1)
AfterAction(text) ==
    IF Len(text) >= 3 /\ text[3] = "(" THEN FirstAt(text, ")") + 1 ELSE 3
EffectOf(text) ==
    IF text[1] = "always" THEN EffectAt(text, 2) ELSE EffectAt(text, AfterAction(text))
ParsedConditions(stmt) ==
    IF "conditions" \in DOMAIN stmt.names
    THEN EffectNames(stmt.names.conditions, 1) ELSE << >>

\* C22: a parsed statement keeps the polarity of its effect and of each of
\* its conditions: read with _get_effect_name, they are the effects as
\* written, `not F` where `not F` was written and `F` where `F` was, each
\* `not` applying to the one fluent after it.
C22_ParsingKeepsPolarity ==
    (call.op = "parse_statement" /\ ret.tag = "ParseResults") =>
        /\ ParsedConditions(ret.states[1]) = ConditionsOf(call.text)
        /\ "effect" \in DOMAIN ret.states[1].names =>
              GetEffectName(ret.states[1].names.effect) = EffectOf(call.text)

\* The `initially` block a domain text starts with, read off its words:
\* `initially` and effects separated by commas.
HasInitially(domain) == Len(domain) >= 2 /\ domain[1] = "initially"
RECURSIVE BlockFrom(_, _)
BlockFrom(text, i) ==
    LET e == EffectAt(text, i)
    IN  IF i + Len(e) <= Len(text) /\ text[i + Len(e)] = ","
        THEN <<e>> \o BlockFrom(text, i + Len(e) + 1)
        ELSE <<e>>
\* the state that asserts the effects of the block: the fluents of its
\* positive effects present, all others absent
DeclaredInitial(domain) ==
    State({e \in Elements(BlockFrom(domain, 2)) : ~ StartsWithNot(e)}, {})

\* C23: a query run without an initial state, after a domain text with an
\* `initially` block, is answered as the same query run from the state that
\* asserts the effects of the block; after a text without such a block it
\* is answered as the query run from the empty state.
C23_InitiallyBlockGivesDefaultState ==
    (call.op = "scenario_query" /\ call.initial_state = None) =>
        /\ HasInitially(call.domain) =>
              /\ ret.tag = "Tuple"
              /\ ret.states = ProcessQuery(Executor, ParseQuery(call.text),
                                           <<DeclaredInitial(call.domain)>>).value
        /\ (~ HasInitially(call.domain) /\ ret.tag = "Tuple") =>
              ret.states = ProcessQuery(Executor, ParseQuery(call.text),
                                        <<State({}, {})>>).value

\* the value execute_action returns for the call the caller holds, on the
\* rule base as it is now
Reexecuted ==
    LET r == ExecuteAction(Executor, call.action, call.state)
    IN  IF r = None THEN RetNone ELSE Ret("State", r)

AppliedOnce(domain) ==
    ProcessDomainDefinition(NewExecutor, ParserParseProgram(domain)).executor
ScenarioActions ==
    {"move", "start_engine", "stop_engine", "aim", "fire", "load", "scan", "open_valve"}

RealisableShape(text) ==
    /\ Len(text) >= 1 /\ text[1] = "realisable"
    /\ FirstAt(text, "by") > 2
    /\ ParseAction(RealisableProgram(text)).ok
    /\ AgentList(text, FirstAt(text, "by") + 1).ok
    /\ AgentList(text, FirstAt(text, "by") + 1).next = Len(text) + 1
MatchesQueryShape(text) ==
    \/ /\ ExecutableKeywords(text) > 0
       /\ ParseAction(Rest(text, ExecutableKeywords(text))).ok
    \/ IsAccessibleQuery(text)
    \/ RealisableShape(text)
    \/ IsActiveQuery(text)

\* C26: a process_query call on a text that matches none of the four query
\* shapes raises an error, returns no verdict and leaves the rule base as it
\* was.
C26_NonQueryRaisesAndChangesNothing ==
    [][(call'.op = "process_query" /\ ~ MatchesQueryShape(call'.text)) =>
           /\ ret'.tag = "ValueError"
           /\ UNCHANGED <<causes_rules, releases_rules, impossible_rules, always_rules>>]_vars

\* the orders in which n rules can have been added, and the executor whose
\* causes rules for an action are the present ones added in another order
Orders(n) == {f \in [1..n -> 1..n] : \A i, j \in 1..n : i # j => f[i] # f[j]}
AddedInOrder(action, f) ==
    IF action \in DOMAIN causes_rules
    THEN [Executor EXCEPT !.causes_rules[action] =
             [i \in 1..Len(causes_rules[action]) |-> causes_rules[action][f[i]]]]
    ELSE Executor

\* C27: the result of execute_action does not depend on the order in which
\* the causes rules of the action were added, also when two rules that fire
\* give one fluent opposite polarities.
C27_CausesOrderDoesNotMatter ==
    call.op = "execute_action" =>
        \A f \in Orders(Len(CausesOf(call.action))) :
           ExecuteAction(AddedInOrder(call.action, f), call.action, call.state)
              = ExecuteAction(Executor, call.action, call.state)

\* the executor without the j-th causes rule of an action
WithoutCausesRule(action, j) ==
    [Executor EXCEPT !.causes_rules[action] =
        SubSeq(causes_rules[action], 1, j - 1)
           \o SubSeq(causes_rules[action], j + 1, Len(causes_rules[action]))]

\* C28: a causes rule of the executed action with a condition that is false
\* in the prior state does not fire, whatever the rules applied before it
\* in the same transition made true: the successor is the one the action
\* gives without that rule.
C28_ConditionsReadThePriorState ==
    Stepped =>
        \A j \in 1..Len(CausesOf(call.action)) :
           ~ AllHold(CausesOf(call.action)[j][2], Prior.fluents) =>
               ExecuteAction(WithoutCausesRule(call.action, j), call.action, Prior)
                  = <<Successor>>

\* an earlier rule of the action made true the fluent a later rule waits
\* for, false in the prior state, and the later rule's effect did not happen
C28_Witness ==
    /\ Stepped
    /\ \E i, j \in 1..Len(CausesOf(call.action)) :
          LET first == CausesOf(call.action)[i]
              later == CausesOf(call.action)[j]
          IN  /\ i < j
              /\ AllHold(first[2], Prior.fluents)
              /\ ~ StartsWithNot(first[1])
              /\ first[1] \notin Prior.fluents
              /\ first[1] \in Successor.fluents
              /\ \E k \in 1..Len(later[2]) : later[2][k] = first[1]
              /\ ~ StartsWithNot(later[1])
              /\ later[1] # first[1]
              /\ later[1] \notin Successor.fluents

\* every rule of a collection is still there, at its place, in the next
\* state: each list of the dict, or the list, is a prefix of the next one
IsPrefix(old, new) == Len(old) <= Len(new) /\ SubSeq(new, 1, Len(old)) = old
DictKept(old, new) ==
    \A k \in DOMAIN old : k \in DOMAIN new /\ IsPrefix(old[k], new[k])
\* the number of collections a step changes
CollectionsChanged ==
    (IF causes_rules' # causes_rules THEN 1 ELSE 0)
      + (IF releases_rules' # releases_rules THEN 1 ELSE 0)
      + (IF impossible_rules' # impossible_rules THEN 1 ELSE 0)
      + (IF always_rules' # always_rules THEN 1 ELSE 0)

\* C29: the rule base is append-only and not deduplicated: every step keeps
\* every stored rule at its place, an add_*_rule call stores exactly one
\* more rule, in one collection, after those already there, and no other
\* operation changes the rule base.
C29_RuleBaseIsAppendOnly ==
    [][/\ DictKept(causes_rules, causes_rules')
       /\ DictKept(releases_rules, releases_rules')
       /\ DictKept(impossible_rules, impossible_rules')
       /\ IsPrefix(always_rules, always_rules')
       /\ IF call = Idle /\ call' = Idle
          THEN RuleCount' = RuleCount + 1 /\ CollectionsChanged = 1
          ELSE CollectionsChanged = 0]_vars

\* the same causes rule was added twice and is stored twice
C29_Witness ==
    \E a \in DOMAIN causes_rules :
       /\ Len(causes_rules[a]) >= 2
       /\ causes_rules[a][1] = causes_rules[a][2]

\* ======================================================================
\* Domain texts applied to a rule base built by the add_*_rule calls
\* ======================================================================
DomainCall(text) == [op |-> "process_domain_definition", text |-> text]

\* semantics.process_domain_definition(text): returns None or raises
DoProcessDomainDefinition ==
    \E text \in DomainTexts :
    \E statements \in {ParserParseProgram(text)} :
       /\ call = Idle
       /\ call' = DomainCall(text)
       /\ \E loaded \in {ProcessDomainDefinition(Executor, statements)} :
             /\ causes_rules' = loaded.executor.causes_rules
             /\ releases_rules' = loaded.executor.releases_rules
             /\ impossible_rules' = loaded.executor.impossible_rules
             /\ always_rules' = loaded.executor.always_rules
             /\ ret' = IF loaded.raised # "" THEN Ret(loaded.raised, << >>) ELSE RetNone

DomainNext ==
    \/ \E a \in ActionNames, e \in EffectStrings, c \in CondLists : AddCausesRule(a, e, c)
    \/ \E a \in ActionNames, f \in FluentNames : AddReleasesRule(a, f)
    \/ \E a \in ActionNames, c \in ImpossibleConds : AddImpossibleRule(a, c)
    \/ \E e \in EffectStrings : AddAlwaysRule(e)
    \/ DoProcessDomainDefinition
    \/ Discard

DomainSpec == Init /\ [][DomainNext]_vars

\* a text that is not a sequence of statements to its end
FailsToParse(text) ==
    ~ Statement(text, 1).ok \/ StatementsFrom(text, 1).next # Len(text) + 1

\* C30: process_domain_definition of a text that fails to parse raises and
\* leaves the rule base exactly as it was: no rule of the text is installed,
\* not even of the statements before the malformed one.
C30_RejectedDomainChangesNothing ==
    [][(call'.op = "process_domain_definition" /\ FailsToParse(call'.text)) =>
           /\ ret'.tag = "ValueError"
           /\ UNCHANGED <<causes_rules, releases_rules, impossible_rules, always_rules>>]_vars

\* a text whose first statements are well formed and which has a malformed
\* one after them was rejected on a rule base that holds rules
C30_Witness ==
    /\ call.op = "process_domain_definition"
    /\ FailsToParse(call.text)
    /\ Statement(call.text, 1).ok
    /\ StatementsFrom(call.text, 1).next > 5
    /\ RuleCount > 0
    /\ ret.tag = "ValueError"

\* ======================================================================
\* The window's rule base and its query report
\* ======================================================================
\* C31: after apply_domain of one domain text and then of another, the rule
\* base is the second text's: each collection is keyed by the actions the
\* second text's statements are written for, it holds one always rule per
\* always statement of that text, and it is the rule base that applying the
\* second text alone gives.
C31_ApplyDomainReplacesRuleBase ==
    (call.op = "apply_domain" /\ IsDomainText(call.domain_text)) =>
        /\ DOMAIN causes_rules = ActionsOf(call.domain_text, "causes")
        /\ DOMAIN releases_rules = ActionsOf(call.domain_text, "releases")
        /\ DOMAIN impossible_rules = ActionsOf(call.domain_text, "impossible")
        /\ Len(always_rules) = Cardinality(StatementsOf(call.domain_text, "always"))
        /\ Executor = AppliedOnce(call.domain_text)

\* the lines of the query editor that execute_query evaluates: not blank,
\* and not an `always` line other than `always executable ...`
KeptLines(query_text) ==
    SelectSeq(query_text,
              LAMBDA line : /\ line # << >>
                            /\ line[1] = "always" =>
                                  (Len(line) > 1 /\ line[2] = "executable"))

\* C38: the i-th entry execute_query reports carries the i-th evaluated line
\* of the query editor as its Query label, there being one entry per
\* evaluated line.
C38_ReportLabelsEachResultWithItsLine ==
    (call.op = "execute_query" /\ ret.tag = "Text") =>
        /\ Len(ret.states) = Len(KeptLines(call.query_text))
        /\ \A i \in 1..Len(ret.states) :
              ret.states[i].query = KeptLines(call.query_text)[i]

\* the ways of writing one invocation of `move` in a program
MoveInvocations == {MoveDriver, Invocation("move", "commander"), <<"move">>}

\* C32: with one rule declared for move(driver) and one for move(gunner),
\* executing any invocation of `move` from the empty state applies both:
\* the trajectory has two states and the second holds both effects, whatever
\* agent list the program gives.
C32_RulesMatchOnActionNameOnly ==
    (/\ call.op = "scenario_simulate"
     /\ call.domain = CrewDomain
     /\ call.text \in MoveInvocations
     /\ call.initial_state = <<EmptyState>>)
        => /\ ret.tag = "List"
           /\ Len(ret.states) = 2
           /\ ret.states[2].fluents = {<<"position_changed">>, <<"target_locked">>}

\* ======================================================================
\* Undeclared actions, read-only evaluation, growth and causes of fluents,
\* composition of programs
\* ======================================================================
\* no causes, releases or impossible rule is declared for the action
Undeclared(action) ==
    action \notin DOMAIN causes_rules \cup DOMAIN releases_rules \cup DOMAIN impossible_rules

\* some always rule is `f`
PositiveAlways(f) ==
    \E i \in 1..Len(always_rules) : always_rules[i] = f

\* C33: execute_action of an action with no rule of any kind returns a
\* successor in every state; a fluent no always rule is about is in the
\* successor iff it is in the prior state, a fluent the always rules only
\* assert is in it, a fluent they only deny is not, and nothing else is; and
\* execute_program returns the empty list only for a program one of whose
\* actions has an impossible rule, so a program of undeclared actions gets
\* its whole trajectory.
C33_UndeclaredActionOnlyAppliesConstraints ==
    /\ (call.op = "execute_action" /\ Undeclared(call.action)) =>
          /\ ret.tag = "State"
          /\ \A f \in Prior.fluents \cup Successor.fluents :
                /\ ~ AlwaysMentions(f) => (f \in Successor.fluents <=> f \in Prior.fluents)
                /\ (PositiveAlways(f) /\ ~ NegativeAlways(f)) => f \in Successor.fluents
                /\ (NegativeAlways(f) /\ ~ PositiveAlways(f)) => f \notin Successor.fluents
    /\ call.op = "execute_program" =>
          /\ ret.states = << >> =>
                \E i \in 1..Len(call.program) : call.program[i] \in DOMAIN impossible_rules
          /\ (\A i \in 1..Len(call.program) : Undeclared(call.program[i])) =>
                Len(ret.states) = Len(call.program) + 1

\* an action without rules was executed in a rule base that declares the
\* other action, and an always rule changed the fluents
C33_Witness ==
    /\ call.op = "execute_action"
    /\ Undeclared(call.action)
    /\ ~ Undeclared(IF call.action = "a" THEN "b" ELSE "a")
    /\ ret.tag = "State"
    /\ Successor.fluents # Prior.fluents

EvalOps == ProgramOps \cup {"execute_action", "check_active"}

\* C34: every step that is an execute_action, execute_program,
\* check_executable, check_accessible, check_realisable or check_active call
\* leaves the state object it was passed with the fluents and the released
\* set it was passed with, and leaves the four collections of the rule base
\* as they were.
C34_EvaluationIsReadOnly ==
    [][call'.op \in EvalOps =>
          /\ call'.passed = call'.state
          /\ UNCHANGED <<causes_rules, releases_rules, impossible_rules, always_rules>>]_vars

\* a two-action program was rejected at its second action after its first
\* action had produced a state with other fluents or another released set
C34_Witness ==
    /\ call.op = "execute_program"
    /\ Len(call.program) = 2
    /\ ret.states = << >>
    /\ ExecuteAction(Executor, call.program[1], call.state) \notin {None, <<call.state>>}
    /\ call.passed = call.state

\* the heap run returns what the run on values returns
EvaluatedAsOnValues ==
    /\ call.op = "execute_program" =>
          ret.states = ExecuteProgram(Executor, call.program, call.state)
    /\ (call.op = "execute_action" /\ "passed" \in DOMAIN call) =>
          ret = (LET r == ExecuteAction(Executor, call.action, call.state)
                 IN  IF r = None THEN RetNone ELSE Ret("State", r))

\* the rule base has no releases rule and no always rule `not f`
NothingReleasedOrDenied ==
    /\ DOMAIN releases_rules = {}
    /\ \A i \in 1..Len(always_rules) : ~ StartsWithNot(always_rules[i])

CausedBy(f) ==
    \E i \in 1..Len(CausesOf(call.action)) :
        /\ CausesOf(call.action)[i][1] = f
        /\ AllHold(CausesOf(call.action)[i][2], Prior.fluents)

\* C36: every fluent of the state execute_action returns is a fluent of the
\* prior state, the positive effect of a causes rule of the executed action
\* whose conditions hold in the prior state, or the fluent of a positive
\* always rule.
C36_NoFluentWithoutCause ==
    Stepped =>
        \A f \in Successor.fluents :
            f \in Prior.fluents \/ CausedBy(f) \/ PositiveAlways(f)

\* a causes rule put a new fluent into the successor while another rule of
\* the action, whose condition did not hold, left its effect out
C36_Witness ==
    /\ Stepped
    /\ \E f \in Successor.fluents : f \notin Prior.fluents /\ CausedBy(f) /\ ~ PositiveAlways(f)
    /\ \E i \in 1..Len(CausesOf(call.action)) :
          /\ ~ AllHold(CausesOf(call.action)[i][2], Prior.fluents)
          /\ ~ StartsWithNot(CausesOf(call.action)[i][1])
          /\ CausesOf(call.action)[i][1] \notin Successor.fluents

\* the first k actions of a program, and the others
FirstPart(program, k) == SubSeq(program, 1, k)
SecondPart(program, k) == SubSeq(program, k + 1, Len(program))

\* C37: for every way of writing the program given to execute_program as p
\* followed by q: if execute_program(p, s) is empty the result is empty;
\* otherwise the result is non-empty iff execute_program(q, t) is, t the
\* last state of p's trajectory, and is then p's trajectory followed by q's
\* without its first element; and the empty program returns [s].
C37_ProgramsCompose ==
    call.op = "execute_program" =>
        /\ \A k \in 0..Len(call.program) :
              LET first == ExecuteProgram(Executor, FirstPart(call.program, k), call.state)
              IN  IF first = << >> THEN ret.states = << >>
                  ELSE LET second == ExecuteProgram(Executor, SecondPart(call.program, k),
                                                    first[Len(first)])
                       IN  /\ ret.states # << >> <=> second # << >>
                           /\ second # << >> => ret.states = first \o Tail(second)
        /\ call.program = << >> => ret.states = <<call.state>>

\* a two-action program ran through three different states, its second
\* action giving another state than it gives on the initial state
C37_Witness ==
    /\ call.op = "execute_program"
    /\ Len(call.program) = 2
    /\ Len(ret.states) = 3
    /\ ret.states[2] # ret.states[1]
    /\ ret.states[3] # ret.states[2]
    /\ ExecuteAction(Executor, call.program[2], call.state) # <<ret.states[3]>>

====
